---------------------------- MODULE Spec2Model ----------------------------
(***************************************************************************)
(* Model of ravi-bytes/wiki-to-adf: two programs that convert Jira wiki    *)
(* markup to an ADF node tree.                                             *)
(*                                                                         *)
(*   src/jira_wiki_to_adf_converter.py  class JiraWikiToADFConverter      *)
(*   src/wiki2adf.py                    class JiraWikiToADF                *)
(*                                                                         *)
(* A Python string is a sequence of tokens.  A token is a TLA+ string      *)
(* holding the very characters it stands for: one character ("a", " ",     *)
(* "*", "|") or one whole marker ("{code}", "{color:red}", "h1.").  The    *)
(* regular expressions of the source are computed over tokens; the inputs  *)
(* are built only from the tokens listed below, for which every match of   *)
(* the source's expressions begins and ends at a token boundary.           *)
(***************************************************************************)
EXTENDS Naturals, Sequences, FiniteSets

\* ----------------------------------------------------------------------
\* Characters and markers
\* ----------------------------------------------------------------------

NL == "\n"
CR == "\r"
SP == " "

\* str.strip() and \s: whitespace characters
Whitespace == {SP, NL, CR, "\t"}

HexDigit == {"0", "1", "2", "3", "4", "5", "6", "7", "8", "9",
             "a", "b", "c", "d", "e", "f", "A", "B", "C", "D", "E", "F"}

Letter == {"a", "b", "c", "d", "e", "f", "j", "l", "n", "o", "r", "t", "v", "x",
           "A", "B", "C", "D", "E", "F", "R", "T"}

Digit == {"0", "1", "2", "3", "4", "5", "6", "7", "8", "9"}

\* str.lower() on one character
LowerChar(c) ==
    CASE c = "A" -> "a" [] c = "B" -> "b" [] c = "C" -> "c" [] c = "D" -> "d"
      [] c = "E" -> "e" [] c = "F" -> "f" [] c = "R" -> "r" [] c = "T" -> "t"
      [] OTHER -> c

\* The characters between "{color:" and "}" of a marker token
ColorArg(t) ==
    CASE t = "{color:red}"       -> <<"r", "e", "d">>
      [] t = "{color:RED}"       -> <<"R", "E", "D">>
      [] t = "{color:#fff}"      -> <<"#", "f", "f", "f">>
      [] t = "{color:fff}"       -> <<"f", "f", "f">>
      [] t = "{color:#ffff}"     -> <<"#", "f", "f", "f", "f">>
      [] t = "{color:#ff}"       -> <<"#", "f", "f">>
      [] t = "{color:notacolor}" -> <<"n", "o", "t", "a", "c", "o", "l", "o", "r">>
      [] OTHER -> <<>>

ColorTokens == {"{color:red}", "{color:RED}", "{color:#fff}", "{color:fff}",
                "{color:#ffff}", "{color:#ff}", "{color:notacolor}"}

\* The characters between "{code:" and "}" of a marker token
CodeArg(t) == IF t = "{code:java}" THEN <<"j", "a", "v", "a">> ELSE <<>>

\* The characters between "{panel:title=" and "}" of a marker token
PanelArg(t) == IF t = "{panel:title=T}" THEN <<"T">> ELSE <<>>

\* Markers that begin with "{code", "{noformat", "{quote", "{panel"
CodeStart     == {"{code}", "{code:java}"}
NoformatStart == {"{noformat}"}
QuoteStart    == {"{quote}"}
PanelStart    == {"{panel}", "{panel:title=T}"}

\* Tokens whose first character is "{"
BraceStart == CodeStart \cup NoformatStart \cup QuoteStart \cup PanelStart
                \cup ColorTokens \cup {"{color}", "{{"}

\* Tokens that hold a "}" character
HasRBrace == BraceStart \cup {"}}"}

\* Heading markers "h1." .. "h6."; the digit of each
HeadingLevel(t) ==
    CASE t = "h1." -> 1 [] t = "h2." -> 2 [] t = "h3." -> 3
      [] t = "h4." -> 4 [] t = "h5." -> 5 [] t = "h6." -> 6
      [] OTHER -> 0

\* Number of characters of a token
CharLen(t) ==
    CASE t \in {"h1.", "h2.", "h3.", "h4.", "h5.", "h6.", "h7.", "bq."} -> 3
      [] t \in {"{{", "}}", "??", "\\\\"} -> 2
      [] t = "{code}" -> 6 [] t = "{code:java}" -> 11
      [] t = "{noformat}" -> 10 [] t = "{quote}" -> 7
      [] t = "{panel}" -> 7 [] t = "{panel:title=T}" -> 15
      [] t = "{color}" -> 7
      [] t \in ColorTokens -> 8 + Len(ColorArg(t))
      [] OTHER -> 1

\* ----------------------------------------------------------------------
\* Python string operations, over token sequences
\* ----------------------------------------------------------------------

Min(S) == CHOOSE k \in S : \A j \in S : k <= j
Max(S) == CHOOSE k \in S : \A j \in S : k >= j

\* Least index >= from of a token in T, or 0
Find(s, T, from) ==
    LET c == {k \in from..Len(s) : s[k] \in T}
    IN  IF c = {} THEN 0 ELSE Min(c)

\* s[from:] and s[a:b] as SubSeq
From(s, from) == SubSeq(s, from, Len(s))

\* str.lstrip(), str.rstrip(), str.strip()
LStrip(s) ==
    LET c == {k \in 1..Len(s) : s[k] \notin Whitespace}
    IN  IF c = {} THEN <<>> ELSE SubSeq(s, Min(c), Len(s))

RStrip(s) ==
    LET c == {k \in 1..Len(s) : s[k] \notin Whitespace}
    IN  IF c = {} THEN <<>> ELSE SubSeq(s, 1, Max(c))

Strip(s) == LStrip(RStrip(s))

\* str.rstrip('\n')
RStripNL(s) ==
    LET c == {k \in 1..Len(s) : s[k] # NL}
    IN  IF c = {} THEN <<>> ELSE SubSeq(s, 1, Max(c))

\* str.count('\n')
CountNL(s) == Cardinality({k \in 1..Len(s) : s[k] = NL})

\* str.split(sep) for a one-token separator
RECURSIVE Split(_, _)
Split(s, sep) ==
    LET k == Find(s, {sep}, 1)
    IN  IF k = 0 THEN <<s>>
        ELSE <<SubSeq(s, 1, k - 1)>> \o Split(From(s, k + 1), sep)

\* str.split('||'): the separator is two "|" characters, scanned from the left
FindPipes(s) ==
    LET c == {k \in 1..(Len(s) - 1) : s[k] = "|" /\ s[k + 1] = "|"}
    IN  IF c = {} THEN 0 ELSE Min(c)

RECURSIVE SplitPipes(_)
SplitPipes(s) ==
    LET k == FindPipes(s)
    IN  IF k = 0 THEN <<s>>
        ELSE <<SubSeq(s, 1, k - 1)>> \o SplitPipes(From(s, k + 2))

\* sep.join(parts)
RECURSIVE Join(_, _)
Join(parts, sep) ==
    IF Len(parts) = 0 THEN <<>>
    ELSE IF Len(parts) = 1 THEN parts[1]
    ELSE parts[1] \o sep \o Join(Tail(parts), sep)

\* text.replace('\r\n', '\n').replace('\r', '\n')
RECURSIVE NormalizeNewlines(_)
NormalizeNewlines(s) ==
    IF s = <<>> THEN <<>>
    ELSE IF s[1] = CR /\ Len(s) >= 2 /\ s[2] = NL
         THEN <<NL>> \o NormalizeNewlines(From(s, 3))
    ELSE IF s[1] = CR THEN <<NL>> \o NormalizeNewlines(Tail(s))
    ELSE <<s[1]>> \o NormalizeNewlines(Tail(s))

\* file.readlines(): lines that keep their "\n"
RECURSIVE ReadLines(_)
ReadLines(s) ==
    LET k == Find(s, {NL}, 1)
    IN  IF s = <<>> THEN <<>>
        ELSE IF k = 0 THEN <<s>>
        ELSE <<SubSeq(s, 1, k)>> \o ReadLines(From(s, k + 1))

\* Number of characters of a string
RECURSIVE StrLen(_)
StrLen(s) == IF s = <<>> THEN 0 ELSE CharLen(s[1]) + StrLen(Tail(s))


\* ----------------------------------------------------------------------
\* JiraWikiToADFConverter: the compiled patterns (_compile_patterns)
\* ----------------------------------------------------------------------

NoMatch == [found |-> FALSE, start |-> 0, end |-> 0,
            g1set |-> FALSE, g1 |-> <<>>, g2 |-> <<>>]

Matched(p, q, a, b) == [found |-> TRUE, start |-> p, end |-> q,
                        g1set |-> TRUE, g1 |-> a, g2 |-> b]

\* A match whose optional first group may not have taken part (group(1) is None)
MatchedOpt(p, q, has, a, b) == [found |-> TRUE, start |-> p, end |-> q,
                                g1set |-> has, g1 |-> a, g2 |-> b]

\* The text a match covers, match.group(0)
Group0(s, m) == SubSeq(s, m.start, m.end)

\* \s*(.+) or \s+(.+) on `rest`: the whitespace takes all it can and gives one
\* character back when nothing else is left for (.+)
GreedyRest(rest, stripped) ==
    IF stripped = <<>> THEN <<rest[Len(rest)]>> ELSE stripped

\* 'heading': ^h([1-6])\.\s*(.+)$ matched at the start of a line
heading_match(line) ==
    IF Len(line) >= 2 /\ HeadingLevel(line[1]) > 0
    THEN Matched(1, Len(line), HeadingLevel(line[1]),
                 GreedyRest(Tail(line), LStrip(Tail(line))))
    ELSE NoMatch

\* 'horizontal_rule': ^----+$
horizontal_rule_match(line) ==
    Len(line) >= 4 /\ \A k \in 1..Len(line) : line[k] = "-"

\* 'table_header': ^\|\|(.+)\|\|$
table_header_match(line) ==
    IF /\ Len(line) >= 5
       /\ line[1] = "|" /\ line[2] = "|"
       /\ line[Len(line) - 1] = "|" /\ line[Len(line)] = "|"
    THEN Matched(1, Len(line), SubSeq(line, 3, Len(line) - 2), <<>>)
    ELSE NoMatch

\* ([^|].+[^|]) on the text between the outer pipes
RowInner(inner) ==
    inner[1] # "|" /\ inner[Len(inner)] # "|" /\ StrLen(inner) >= 3

\* 'table_row': ^\|([^|].+[^|])\|$
table_row_match(line) ==
    IF /\ Len(line) >= 3
       /\ line[1] = "|" /\ line[Len(line)] = "|"
       /\ RowInner(SubSeq(line, 2, Len(line) - 1))
    THEN Matched(1, Len(line), SubSeq(line, 2, Len(line) - 1), <<>>)
    ELSE NoMatch

\* Length of the run of `marker` a line begins with
MarkerRun(line, marker) ==
    IF \A k \in 1..Len(line) : line[k] = marker THEN Len(line)
    ELSE Min({k \in 1..Len(line) : line[k] # marker}) - 1

\* ^(M+)\s+(.+)$ given the marker run and the text after it
list_match_rest(line, run, rest) ==
    IF run = 0 \/ rest = <<>> THEN NoMatch
    ELSE IF rest[1] \notin Whitespace THEN NoMatch
    ELSE IF LStrip(rest) = <<>> /\ Len(rest) < 2 THEN NoMatch
    ELSE Matched(1, Len(line), SubSeq(line, 1, run), GreedyRest(rest, LStrip(rest)))

list_match_run(line, run) == list_match_rest(line, run, From(line, run + 1))

\* 'bullet_list': ^(\*+)\s+(.+)$
bullet_list_match(line) == list_match_run(line, MarkerRun(line, "*"))
\* 'numbered_list': ^(#+)\s+(.+)$
numbered_list_match(line) == list_match_run(line, MarkerRun(line, "#"))

\* [a-zA-Z0-9]+
IsAlnum(arg) == arg # <<>> /\ \A k \in 1..Len(arg) : arg[k] \in Letter \cup Digit

\* [a-fA-F0-9]{3,6}
IsHexRun(hex) == Len(hex) \in 3..6 /\ \A k \in 1..Len(hex) : hex[k] \in HexDigit

\* (#?[a-fA-F0-9]{3,6}|[a-zA-Z]+) followed by "}"
ColorArgMatches(arg) ==
    /\ arg # <<>>
    /\ \/ IsHexRun(IF arg[1] = "#" THEN Tail(arg) ELSE arg)
       \/ \A k \in 1..Len(arg) : arg[k] \in Letter

\* The openers of the fenced patterns, and the argument each captures
FenceOpen(kind, t) ==
    CASE kind = "code_block" -> t = "{code}" \/ (t \in CodeStart /\ IsAlnum(CodeArg(t)))
      [] kind = "noformat"   -> t = "{noformat}"
      [] kind = "quote"      -> t = "{quote}"
      [] kind = "panel"      -> t \in PanelStart
      [] kind = "color"      -> t \in ColorTokens /\ ColorArgMatches(ColorArg(t))

FenceClose(kind) ==
    CASE kind = "code_block" -> "{code}"
      [] kind = "noformat"   -> "{noformat}"
      [] kind = "quote"      -> "{quote}"
      [] kind = "panel"      -> "{panel}"
      [] kind = "color"      -> "{color}"

\* The groups of a fenced match from p to q: (argument, body) for code, panel
\* and color, whose first group is optional for code and panel; (body) for
\* noformat and quote
FenceGroups(kind, s, p, q) ==
    CASE kind = "code_block" ->
            MatchedOpt(p, q, s[p] # "{code}", CodeArg(s[p]), SubSeq(s, p + 1, q - 1))
      [] kind = "panel" ->
            MatchedOpt(p, q, s[p] # "{panel}", PanelArg(s[p]), SubSeq(s, p + 1, q - 1))
      [] kind = "color" ->
            Matched(p, q, ColorArg(s[p]), SubSeq(s, p + 1, q - 1))
      [] OTHER -> Matched(p, q, SubSeq(s, p + 1, q - 1), <<>>)

fence_at(kind, s, p) == FenceGroups(kind, s, p, Find(s, {FenceClose(kind)}, p + 1))

fence_first(kind, s, ps) == IF ps = {} THEN NoMatch ELSE fence_at(kind, s, Min(ps))

\* pattern.search(s) for open(.*?)close with re.DOTALL: the leftmost opener
\* that a closer follows, up to the first closer after it
fence_search(kind, s) ==
    fence_first(kind, s,
        {p \in 1..Len(s) : FenceOpen(kind, s[p]) /\ Find(s, {FenceClose(kind)}, p + 1) # 0})

\* open([^stop]+)close at p, where r is the first closer or stop character after p
span_ok(s, p, r, open, close) == s[p] = open /\ r >= p + 2 /\ s[r] = close

span_at(s, p, r) == Matched(p, r, SubSeq(s, p + 1, r - 1), <<>>)

span_first(s, ps, ends) ==
    IF ps = {} THEN NoMatch ELSE span_at(s, Min(ps), Find(s, ends, Min(ps) + 1))

\* pattern.search(s) for open([^stop]+)close: the leftmost opener whose run of
\* characters outside `stop` is not empty and ends at a closer
span_search(s, open, close, stop) ==
    span_first(s,
        {p \in 1..Len(s) :
            span_ok(s, p, Find(s, stop \cup {close}, p + 1), open, close)},
        stop \cup {close})

\* \[([^|\]]+)\|([^\]]+)\] at p, with the first "|" or "]" after p at bar and the
\* first "]" after that at rb
link_ok(s, p, bar, rb) ==
    /\ s[p] = "[" /\ bar >= p + 2
    /\ s[bar] = "|" /\ rb >= bar + 2

link_bar(s, p) == Find(s, {"|", "]"}, p + 1)

link_at(s, p, bar, rb) ==
    Matched(p, rb, SubSeq(s, p + 1, bar - 1), SubSeq(s, bar + 1, rb - 1))

link_first(s, ps) ==
    IF ps = {} THEN NoMatch
    ELSE link_at(s, Min(ps), link_bar(s, Min(ps)),
                 Find(s, {"]"}, link_bar(s, Min(ps)) + 1))

\* 'link_with_text'
link_with_text_search(s) ==
    link_first(s,
        {p \in 1..Len(s) :
            link_ok(s, p, link_bar(s, p), Find(s, {"]"}, link_bar(s, p) + 1))})

\* 'line_break': two backslashes
line_break_at(p) == IF p = 0 THEN NoMatch ELSE Matched(p, p, <<>>, <<>>)
line_break_search(s) == line_break_at(Find(s, {"\\\\"}, 1))

\* pattern.search(s) by the pattern's name in self.patterns
pattern_search(name, s) ==
    CASE name \in {"color", "code_block", "noformat", "quote", "panel"} ->
            fence_search(name, s)
      [] name = "link_with_text" -> link_with_text_search(s)
      [] name = "link_simple"    -> span_search(s, "[", "]", {})
      [] name = "image"          -> span_search(s, "!", "!", {NL})
      [] name = "monospace"      -> span_search(s, "{{", "}}", HasRBrace)
      [] name = "bold"           -> span_search(s, "*", "*", {NL})
      [] name = "italic"         -> span_search(s, "_", "_", {NL})
      [] name = "underline"      -> span_search(s, "+", "+", {NL})
      [] name = "strikethrough"  -> span_search(s, "-", "-", {NL})
      [] name = "superscript"    -> span_search(s, "^", "^", {NL})
      [] name = "subscript"      -> span_search(s, "~", "~", {NL})
      [] name = "citation"       -> span_search(s, "??", "??", {NL})
      [] name = "line_break"     -> line_break_search(s)

\* ----------------------------------------------------------------------
\* JiraWikiToADFConverter: diagnostics and inline content
\* ----------------------------------------------------------------------

\* ParseErrorType: the values of the enumeration
ParseErrorType == {"malformed_table", "unclosed_tag", "invalid_heading",
                   "malformed_link", "invalid_color", "nested_formatting",
                   "unknown_macro", "invalid_list"}

\* ParseError, as _add_error builds it
ParseError(error_type, line_number, column, original_text, parsed_as, message) ==
    [error_type |-> error_type, line_number |-> line_number, column |-> column,
     original_text |-> original_text, parsed_as |-> parsed_as, message |-> message]

named_colors ==
    {<<"r", "e", "d">>, <<"g", "r", "e", "e", "n">>, <<"b", "l", "u", "e">>,
     <<"y", "e", "l", "l", "o", "w">>, <<"o", "r", "a", "n", "g", "e">>,
     <<"p", "u", "r", "p", "l", "e">>, <<"p", "i", "n", "k">>,
     <<"b", "r", "o", "w", "n">>, <<"b", "l", "a", "c", "k">>,
     <<"w", "h", "i", "t", "e">>, <<"g", "r", "a", "y">>, <<"g", "r", "e", "y">>,
     <<"c", "y", "a", "n">>, <<"m", "a", "g", "e", "n", "t", "a">>}

\* str.lower()
Lower(s) == [k \in 1..Len(s) |-> LowerChar(s[k])]

\* Faulty variant of _is_valid_color: every value is taken for a color
any_color_is_valid(color) == TRUE

\* _is_valid_color
_is_valid_color(color) ==
    IF color # <<>> /\ color[1] = "#"
    THEN /\ Len(color) \in {4, 7}
         /\ \A k \in 2..Len(color) : color[k] \in HexDigit
    ELSE Lower(color) \in named_colors

TextNode(text) == [type |-> "text", text |-> text]
MarkedText(text, mark) == [type |-> "text", text |-> text, marks |-> <<mark>>]
Mark(type) == [type |-> type]
SubSupMark(dir) == [type |-> "subsup", attrs |-> [type |-> dir]]
ColorMark(color) == [type |-> "textColor", attrs |-> [color |-> color]]
LinkMark(url) == [type |-> "link", attrs |-> [href |-> url]]
MediaSingle(src) ==
    [type |-> "mediaSingle",
     content |-> <<[type |-> "media",
                    attrs |-> [type |-> "external", url |-> src, alt |-> src]]>>]

\* Inline nodes together with the errors recorded while they were built
Inline(nodes, errs) == [nodes |-> nodes, errors |-> errs]

\* _process_inline_match, pattern 'color'
process_color(m, s, line_number) ==
    IF ~_is_valid_color(m.g1)
    THEN Inline(<<TextNode(m.g2)>>,
                <<ParseError("invalid_color", line_number, 0, Group0(s, m),
                             <<"Plain text: ">> \o m.g2,
                             <<"Invalid color value: ">> \o m.g1)>>)
    ELSE Inline(<<MarkedText(m.g2, ColorMark(m.g1))>>, <<>>)

\* _process_inline_match: the nodes a match becomes and the errors it records.
\* Its try block calls only match.group and _is_valid_color, which do not raise,
\* so its except branch (nested_formatting) is never taken.
_process_inline_match(pattern_name, m, s, line_number) ==
    CASE pattern_name = "bold" -> Inline(<<MarkedText(m.g1, Mark("strong"))>>, <<>>)
      [] pattern_name = "italic" -> Inline(<<MarkedText(m.g1, Mark("em"))>>, <<>>)
      [] pattern_name = "underline" -> Inline(<<MarkedText(m.g1, Mark("underline"))>>, <<>>)
      [] pattern_name = "strikethrough" -> Inline(<<MarkedText(m.g1, Mark("strike"))>>, <<>>)
      [] pattern_name = "superscript" -> Inline(<<MarkedText(m.g1, SubSupMark("sup"))>>, <<>>)
      [] pattern_name = "subscript" -> Inline(<<MarkedText(m.g1, SubSupMark("sub"))>>, <<>>)
      [] pattern_name = "monospace" -> Inline(<<MarkedText(m.g1, Mark("code"))>>, <<>>)
      [] pattern_name = "citation" -> Inline(<<MarkedText(m.g1, Mark("em"))>>, <<>>)
      [] pattern_name = "color" -> process_color(m, s, line_number)
      [] pattern_name = "link_with_text" ->
            Inline(<<MarkedText(m.g1, LinkMark(m.g2))>>, <<>>)
      [] pattern_name = "link_simple" ->
            Inline(<<MarkedText(m.g1, LinkMark(m.g1))>>, <<>>)
      [] pattern_name = "image" -> Inline(<<MediaSingle(m.g1)>>, <<>>)
      [] pattern_name = "line_break" -> Inline(<<[type |-> "hardBreak"]>>, <<>>)
      [] pattern_name \in {"code_block", "noformat", "quote"} ->
            Inline(<<TextNode(Group0(s, m))>>, <<>>)
      [] OTHER -> Inline(<<>>, <<>>)

\* The names of inline_patterns, in the order of the list in _parse_inline_content
inline_pattern_names ==
    << "color", "link_with_text", "link_simple", "image", "code_block", "noformat",
       "quote", "monospace", "bold", "italic", "underline", "strikethrough",
       "superscript", "subscript", "citation", "line_break" >>

\* pattern.search(remaining_text) for each of them
inline_patterns(s) ==
    [k \in 1..Len(inline_pattern_names) |->
        pattern_search(inline_pattern_names[k], s)]

\* Faulty variant of the for loop, with <= for <: of the matches that start at
\* the same offset the last of the list is kept
earliest_pattern_last_wins(ms) ==
    IF \A k \in 1..Len(ms) : ~ms[k].found THEN 0
    ELSE CHOOSE k \in 1..Len(ms) :
            /\ ms[k].found
            /\ \A j \in 1..Len(ms) :
                  ms[j].found =>
                      \/ ms[k].start < ms[j].start
                      \/ (ms[k].start = ms[j].start /\ k >= j)

\* The for loop over inline_patterns: a pattern replaces the earliest match only
\* when its match starts strictly earlier (0 when nothing matches)
earliest_pattern(ms) ==
    IF \A k \in 1..Len(ms) : ~ms[k].found THEN 0
    ELSE CHOOSE k \in 1..Len(ms) :
            /\ ms[k].found
            /\ \A j \in 1..Len(ms) :
                  ms[j].found =>
                      \/ ms[k].start < ms[j].start
                      \/ (ms[k].start = ms[j].start /\ k <= j)

\* text_before: the text in front of the match, when there is any
text_before(s, m) ==
    IF m.start > 1 THEN <<TextNode(SubSeq(s, 1, m.start - 1))>> ELSE <<>>

inline_concat(before, el, rest) ==
    Inline(before \o el.nodes \o rest.nodes, el.errors \o rest.errors)

\* The while loop of _parse_inline_content
RECURSIVE inline_scan(_, _)

inline_matched(s, name, m, line_number) ==
    inline_concat(text_before(s, m),
                  _process_inline_match(name, m, s, line_number),
                  inline_scan(From(s, m.end + 1), line_number))

inline_choose(s, ms, k, line_number) ==
    IF k = 0 THEN Inline(<<TextNode(s)>>, <<>>)
    ELSE inline_matched(s, inline_pattern_names[k], ms[k], line_number)

inline_earliest(s, ms, line_number) ==
    inline_choose(s, ms, earliest_pattern(ms), line_number)

inline_scan(remaining_text, line_number) ==
    IF remaining_text = <<>> THEN Inline(<<>>, <<>>)
    ELSE inline_earliest(remaining_text, inline_patterns(remaining_text), line_number)

\* return content if content else [{"type": "text", "text": text}]
inline_result(text, r) ==
    IF r.nodes # <<>> THEN r ELSE Inline(<<TextNode(text)>>, r.errors)

\* _parse_inline_content
_parse_inline_content(text, line_number) ==
    IF Strip(text) = <<>> THEN Inline(<<>>, <<>>)
    ELSE inline_result(text, inline_scan(text, line_number))

\* ----------------------------------------------------------------------
\* JiraWikiToADFConverter: block parsers
\* Indexes are Python's (from 0): lines[idx] is At(lines, idx).
\* ----------------------------------------------------------------------

At(lines, idx) == lines[idx + 1]

\* lines[start_idx:]
LinesFrom(lines, start_idx) == SubSeq(lines, start_idx + 1, Len(lines))

\* attrs = {}
EmptyAttrs == [k \in {} |-> <<>>]

\* What a block parser returns: the tuple (node, lines_consumed), with the errors
\* recorded on the way; `has` is FALSE when the node is None
Block(node, consumed, errs) ==
    [has |-> TRUE, node |-> node, consumed |-> consumed, errors |-> errs]
NoBlock(consumed) ==
    [has |-> FALSE, node |-> [type |-> "None"], consumed |-> consumed, errors |-> <<>>]

Paragraph(content) == [type |-> "paragraph", content |-> content]

\* _create_empty_paragraph
_create_empty_paragraph == Paragraph(<<TextNode(<<>>)>>)

\* line.startswith('{code') or ... '{noformat' ... '{quote' ... '{panel'
StartsWithMacro(line) ==
    /\ line # <<>>
    /\ line[1] \in CodeStart \cup NoformatStart \cup QuoteStart \cup PanelStart

block_start_stripped(line) ==
    \/ heading_match(line).found
    \/ table_header_match(line).found
    \/ table_row_match(line).found
    \/ bullet_list_match(line).found
    \/ numbered_list_match(line).found
    \/ horizontal_rule_match(line)
    \/ StartsWithMacro(line)

\* _is_block_element_start
_is_block_element_start(line) == block_start_stripped(Strip(line))

\* _parse_paragraph: the index at which its while loop stops
first_stop(lines, stops) == IF stops = {} THEN Len(lines) ELSE Min(stops)

paragraph_stop(lines, start_idx) ==
    first_stop(lines,
        {k \in start_idx..(Len(lines) - 1) :
            \/ Strip(At(lines, k)) = <<>>
            \/ (_is_block_element_start(At(lines, k)) /\ k > start_idx)})

\* Faulty variant of the return of _parse_paragraph: the count of consumed lines
\* is one short
paragraph_node_one_short(paragraph_lines, inl) ==
    Block(Paragraph(inl.nodes), Len(paragraph_lines) - 1, inl.errors)

paragraph_node(paragraph_lines, inl) ==
    IF inl.nodes = <<>>
    THEN Block(_create_empty_paragraph, Len(paragraph_lines), inl.errors)
    ELSE Block(Paragraph(inl.nodes), Len(paragraph_lines), inl.errors)

paragraph_of(paragraph_lines, line_number) ==
    IF paragraph_lines = <<>> THEN NoBlock(1)
    ELSE paragraph_node(paragraph_lines,
                        _parse_inline_content(Join(paragraph_lines, <<NL>>), line_number))

\* _parse_paragraph
_parse_paragraph(lines, start_idx, line_number) ==
    paragraph_of(SubSeq(lines, start_idx + 1, paragraph_stop(lines, start_idx)),
                 line_number)

\* One cell: {"type": cell_type, "content": [paragraph of the cell's inline content]}
cell_node(cell_type, inl, rest) ==
    Inline(<<[type |-> cell_type, content |-> <<Paragraph(inl.nodes)>>]>> \o rest.nodes,
           inl.errors \o rest.errors)

\* The cells of one table line: [... for cell in cells if cell], each stripped
RECURSIVE table_cells(_, _, _)
table_cells(cells, cell_type, line_number) ==
    IF cells = <<>> THEN Inline(<<>>, <<>>)
    ELSE IF Strip(cells[1]) = <<>> THEN table_cells(Tail(cells), cell_type, line_number)
    ELSE cell_node(cell_type,
                   _parse_inline_content(Strip(cells[1]), line_number),
                   table_cells(Tail(cells), cell_type, line_number))

Rows(rows, errs, i) == [rows |-> rows, errors |-> errs, i |-> i]

row_node(cells, rest) ==
    Rows(<<[type |-> "tableRow", content |-> cells.nodes]>> \o rest.rows,
         cells.errors \o rest.errors, rest.i)

\* The while loop of _parse_table, from line i on: header rows split on "||",
\* data rows on "|"
RECURSIVE table_rows_from(_, _, _)

table_line(lines, i, line, line_number) ==
    IF table_header_match(line).found
    THEN row_node(table_cells(SplitPipes(table_header_match(line).g1),
                              "tableHeader", line_number),
                  table_rows_from(lines, i + 1, line_number))
    ELSE IF table_row_match(line).found
    THEN row_node(table_cells(Split(table_row_match(line).g1, "|"),
                              "tableCell", line_number),
                  table_rows_from(lines, i + 1, line_number))
    ELSE Rows(<<>>, <<>>, i)

table_rows_from(lines, i, line_number) ==
    IF i >= Len(lines) THEN Rows(<<>>, <<>>, i)
    ELSE table_line(lines, i, Strip(At(lines, i)), line_number)

table_node(lines, start_idx, line_number, t) ==
    IF t.rows = <<>> THEN _parse_paragraph(lines, start_idx, line_number)
    ELSE Block([type |-> "table", content |-> t.rows], t.i - start_idx, t.errors)

\* _parse_table.  Nothing in its try block raises, so its except branch
\* (malformed_table) is never taken.
_parse_table(lines, start_idx, line_number) ==
    table_node(lines, start_idx, line_number,
               table_rows_from(lines, start_idx, line_number))

Items(items, errs, i, list_type) ==
    [items |-> items, errors |-> errs, i |-> i, list_type |-> list_type]

item_node(inl, rest) ==
    Items(<<[type |-> "listItem", content |-> <<Paragraph(inl.nodes)>>]>> \o rest.items,
          inl.errors \o rest.errors, rest.i, rest.list_type)

\* The while loop of _parse_list, from line i on, with list_type as it stands
\* ("None" before the first item)
RECURSIVE list_items_from(_, _, _, _)

list_item(lines, i, list_type, line_number, m, own) ==
    IF list_type # "None" /\ list_type # own THEN Items(<<>>, <<>>, i, list_type)
    ELSE item_node(_parse_inline_content(m.g2, line_number),
                   list_items_from(lines, i + 1, own, line_number))

list_line(lines, i, list_type, line_number, line) ==
    IF bullet_list_match(line).found
    THEN list_item(lines, i, list_type, line_number, bullet_list_match(line), "bulletList")
    ELSE IF numbered_list_match(line).found
    THEN list_item(lines, i, list_type, line_number, numbered_list_match(line), "orderedList")
    ELSE IF Strip(line) # <<>> THEN Items(<<>>, <<>>, i, list_type)
    ELSE list_items_from(lines, i + 1, list_type, line_number)

list_items_from(lines, i, list_type, line_number) ==
    IF i >= Len(lines) THEN Items(<<>>, <<>>, i, list_type)
    ELSE list_line(lines, i, list_type, line_number, At(lines, i))

list_node(lines, start_idx, line_number, l) ==
    IF l.items = <<>> THEN _parse_paragraph(lines, start_idx, line_number)
    ELSE Block([type |-> IF l.list_type = "None" THEN "bulletList" ELSE l.list_type,
                content |-> l.items],
               l.i - start_idx, l.errors)

\* _parse_list
_parse_list(lines, start_idx, line_number) ==
    list_node(lines, start_idx, line_number,
              list_items_from(lines, start_idx, "None", line_number))

\* language = match.group(1) or ""
code_language(m) == IF m.g1set THEN m.g1 ELSE <<>>

\* _parse_code_block_from_match
_parse_code_block_from_match(m) ==
    [type |-> "codeBlock",
     attrs |-> IF code_language(m) # <<>> THEN [language |-> code_language(m)]
               ELSE EmptyAttrs,
     content |-> <<TextNode(Strip(m.g2))>>]

\* _parse_noformat_block
_parse_noformat_block(m) ==
    [type |-> "codeBlock", content |-> <<TextNode(m.g1)>>]

quote_node(inl) == [type |-> "blockquote", content |-> <<Paragraph(inl.nodes)>>]

\* _parse_quote_block
_parse_quote_block(m, consumed, line_number, inl) ==
    Block(quote_node(inl), consumed, inl.errors)

\* title = match.group(1); if title: attrs["title"] = title
panel_attrs(m) ==
    IF m.g1set /\ m.g1 # <<>> THEN [title |-> m.g1] ELSE EmptyAttrs

panel_node(m, inl) ==
    [type |-> "panel", attrs |-> panel_attrs(m), content |-> <<Paragraph(inl.nodes)>>]

\* _parse_panel_block
_parse_panel_block(m, consumed, line_number, inl) ==
    Block(panel_node(m, inl), consumed, inl.errors)

\* match.group(0).count('\n') + 1
lines_of_match(s, m) == CountNL(Group0(s, m)) + 1

\* match and match.start() == 0
AtStart(m) == m.found /\ m.start = 1

\* _parse_block_element from "# Code blocks" on, on '\n'.join(lines[start_idx:])
parse_macros(joined, line_number, code_match, noformat_match, quote_match, panel_match) ==
    IF AtStart(code_match)
    THEN Block(_parse_code_block_from_match(code_match),
               lines_of_match(joined, code_match), <<>>)
    ELSE IF AtStart(noformat_match)
    THEN Block(_parse_noformat_block(noformat_match),
               lines_of_match(joined, noformat_match), <<>>)
    ELSE IF AtStart(quote_match)
    THEN _parse_quote_block(quote_match, lines_of_match(joined, quote_match), line_number,
                            _parse_inline_content(Strip(quote_match.g1), line_number))
    ELSE IF AtStart(panel_match)
    THEN _parse_panel_block(panel_match, lines_of_match(joined, panel_match), line_number,
                            _parse_inline_content(Strip(panel_match.g2), line_number))
    ELSE NoBlock(0)

parse_fenced(joined, line_number) ==
    parse_macros(joined, line_number,
                 pattern_search("code_block", joined), pattern_search("noformat", joined),
                 pattern_search("quote", joined), pattern_search("panel", joined))

heading_node(m, inl) ==
    Block([type |-> "heading", attrs |-> [level |-> m.g1], content |-> inl.nodes],
          1, inl.errors)

\* _parse_block_element up to "# Lists", on the stripped line
parse_line_blocks(lines, start_idx, line_number, line, heading) ==
    IF heading.found
    THEN heading_node(heading, _parse_inline_content(Strip(heading.g2), line_number))
    ELSE IF horizontal_rule_match(line) THEN Block([type |-> "rule"], 1, <<>>)
    ELSE IF table_header_match(line).found \/ table_row_match(line).found
    THEN _parse_table(lines, start_idx, line_number)
    ELSE IF bullet_list_match(line).found \/ numbered_list_match(line).found
    THEN _parse_list(lines, start_idx, line_number)
    ELSE parse_fenced(Join(LinesFrom(lines, start_idx), <<NL>>), line_number)

block_element_of(lines, start_idx, line_number, line) ==
    parse_line_blocks(lines, start_idx, line_number, line, heading_match(line))

\* _parse_block_element: the first test that applies, in the order of the source;
\* NoBlock(0) stands for its "return None"
_parse_block_element(lines, start_idx, line_number) ==
    block_element_of(lines, start_idx, line_number, Strip(At(lines, start_idx)))

\* ----------------------------------------------------------------------
\* JiraWikiToADF (wiki2adf.py): inline text
\* json.dumps output is kept as tokens: the fixed parts of the JSON text are
\* single tokens, cut so that "}}" is a token of its own.
\* ----------------------------------------------------------------------

\* json.dumps of a string, without its quotes: the backslash and the control
\* characters are escaped
JsonEscapeChar(c) ==
    CASE c = "\\\\" -> "\\\\\\\\"
      [] c = NL -> "\\n"
      [] c = CR -> "\\r"
      [] c = "\t" -> "\\t"
      [] OTHER -> c

JsonEscape(s) == [k \in 1..Len(s) |-> JsonEscapeChar(s[k])]

\* wrap_mark: json.dumps({"type": "text", "text": inner_text, "marks": [{"type": mark_type}]})
wrap_mark(inner_text, mark_type) ==
    <<"{\"type\": \"text\", \"text\": \"">> \o JsonEscape(inner_text)
        \o <<"\", \"marks\": [{\"type\": \"", mark_type, "\"}]}">>

\* convert_mention: json.dumps of the mention node
convert_mention(username) ==
    <<"{\"type\": \"mention\", \"attrs\": {\"id\": \"\", \"text\": \"@">>
        \o JsonEscape(username) \o <<"\"", "}}">>

\* link_repl for [label|url]: json.dumps of the text node with its link mark
link_repl(label, url) ==
    <<"{\"type\": \"text\", \"text\": \"">> \o JsonEscape(label)
        \o <<"\", \"marks\": [{\"type\": \"link\", \"attrs\": {\"href\": \"">>
        \o JsonEscape(url) \o <<"\", \"title\": \"">> \o JsonEscape(label)
        \o <<"\"", "}}", "]}">>

\* \[~([^\]]+)\] at p: "[", "~", one character or more, then the first "]"
mention_ok(s, p, rb) ==
    /\ s[p] = "[" /\ p < Len(s) /\ s[p + 1] = "~"
    /\ rb >= p + 3

RECURSIVE mention_sub(_)

mention_replace(s, p, rb) ==
    SubSeq(s, 1, p - 1) \o convert_mention(SubSeq(s, p + 2, rb - 1))
        \o mention_sub(From(s, rb + 1))

mention_first(s, ps) ==
    IF ps = {} THEN s ELSE mention_replace(s, Min(ps), Find(s, {"]"}, Min(ps) + 2))

\* re.sub(r"\[~([^\]]+)\]", convert_mention, text)
mention_sub(s) ==
    mention_first(s, {p \in 1..Len(s) : mention_ok(s, p, Find(s, {"]"}, p + 2))})

RECURSIVE link_sub(_)

link_replace(s, m) ==
    IF ~m.found THEN s
    ELSE SubSeq(s, 1, m.start - 1) \o link_repl(m.g1, m.g2)
            \o link_sub(From(s, m.end + 1))

\* re.sub(r"\[([^|\]]+)\|([^]]+)\]|\[([hH][tT][tT][pP][^\]]+)\]", link_repl, text).
\* The second alternative needs the letters h, t, t, p after "[", which no
\* token sequence of the inputs spells.
link_sub(s) == link_replace(s, link_with_text_search(s))

RECURSIVE style_sub(_, _, _, _)

\* open(.*?)close at p, with r the first closer or "\n" after the opener
style_replace(s, open, close, mark_type, p, r) ==
    IF p = 0 \/ r = 0 THEN s
    ELSE IF s[r] = NL
    THEN SubSeq(s, 1, p) \o style_sub(From(s, p + 1), open, close, mark_type)
    ELSE SubSeq(s, 1, p - 1) \o wrap_mark(SubSeq(s, p + 1, r - 1), mark_type)
            \o style_sub(From(s, r + 1), open, close, mark_type)

style_from(s, open, close, mark_type, p) ==
    style_replace(s, open, close, mark_type, p,
                  IF p = 0 THEN 0 ELSE Find(s, {close, NL}, p + 1))

\* re.sub(open(.*?)close, wrap_mark, text): every match from the left, the
\* shortest at each opener, "." standing for any character but "\n"
style_sub(s, open, close, mark_type) ==
    style_from(s, open, close, mark_type, Find(s, {open}, 1))

\* The substitutions of parse_inline, in their order.  No part of
\* text.split('"type":') begins with `text` after strip(), the inputs holding
\* no double quote, so the loop over the parts appends nothing.
inline_subs(text) ==
    style_sub(style_sub(style_sub(style_sub(link_sub(mention_sub(text)),
        "*", "*", "strong"), "_", "_", "em"), "-", "-", "strike"), "{{", "}}", "code")

text_nodes(text) == IF text # <<>> THEN <<TextNode(text)>> ELSE <<>>

\* parse_inline
parse_inline(text) == text_nodes(inline_subs(text))

\* ----------------------------------------------------------------------
\* JiraWikiToADF (wiki2adf.py): block parsers.  `lines` are those of
\* readlines(), each with its "\n"; indexes are Python's.
\* ----------------------------------------------------------------------

\* What a block parser returns: (node, skip_to), and the messages it logged
WBlock(node, skip_to, errs) == [node |-> node, skip_to |-> skip_to, errors |-> errs]

\* f"Line {start_idx+1}: <message>", as log_error stores it
LogLine(n, message) == [line |-> n, message |-> message]

\* First index after start_idx of a line that closes the block, or len(lines)
close_index(lines, start_idx, closes) ==
    first_stop(lines, {k \in (start_idx + 1)..(Len(lines) - 1) : k \in closes})

\* lines[k].rstrip('\n') for the lines between the opener and index `last`
content_lines(lines, start_idx, last) ==
    [k \in 1..(last - start_idx - 1) |-> RStripNL(At(lines, start_idx + k))]

unclosed(lines, start_idx, last, name) ==
    IF last >= Len(lines)
    THEN <<LogLine(start_idx + 1, <<"Unclosed {", name, "} block; closing at EOF">>)>>
    ELSE <<>>

StartsWith(line, T) == line # <<>> /\ line[1] \in T

\* re.match(r"\{code:([^}|]+)", first_line)
lang_match(first_line) ==
    IF StartsWith(first_line, CodeStart) THEN CodeArg(first_line[1]) ELSE <<>>

code_node(language, body) ==
    [type |-> "codeBlock",
     attrs |-> IF language # <<>> THEN [language |-> language] ELSE EmptyAttrs,
     content |-> <<TextNode(Join(body, <<NL>>))>>]

code_block_at(lines, start_idx, last) ==
    WBlock(code_node(lang_match(Strip(At(lines, start_idx))),
                     content_lines(lines, start_idx, last)),
           last + 1, unclosed(lines, start_idx, last, "code"))

\* parse_code_block
parse_code_block(lines, start_idx) ==
    code_block_at(lines, start_idx,
        close_index(lines, start_idx,
            {k \in 0..(Len(lines) - 1) : StartsWith(Strip(At(lines, k)), {"{code}"})}))

noformat_block_at(lines, start_idx, last) ==
    WBlock([type |-> "codeBlock",
            content |-> <<TextNode(Join(content_lines(lines, start_idx, last), <<NL>>))>>],
           last + 1, unclosed(lines, start_idx, last, "noformat"))

\* parse_noformat_block
parse_noformat_block(lines, start_idx) ==
    noformat_block_at(lines, start_idx,
        close_index(lines, start_idx,
            {k \in 0..(Len(lines) - 1) : Strip(At(lines, k)) = <<"{noformat}">>}))

\* re.search(r"title=([^|}]+)", first_line)
title_match(first_line) ==
    IF \E k \in 1..Len(first_line) : PanelArg(first_line[k]) # <<>>
    THEN PanelArg(first_line[Min({k \in 1..Len(first_line) : PanelArg(first_line[k]) # <<>>})])
    ELSE <<>>

panel_paragraphs(body) == [k \in 1..Len(body) |-> Paragraph(parse_inline(body[k]))]

panel_title(panel_title_text) ==
    IF panel_title_text # <<>> THEN <<Paragraph(<<TextNode(panel_title_text)>>)>> ELSE <<>>

panel_block_at(lines, start_idx, last) ==
    WBlock([type |-> "panel", attrs |-> [panelType |-> "info"],
            content |-> panel_title(title_match(Strip(At(lines, start_idx))))
                          \o panel_paragraphs(content_lines(lines, start_idx, last))],
           last + 1, unclosed(lines, start_idx, last, "panel"))

\* parse_panel_block
parse_panel_block(lines, start_idx) ==
    panel_block_at(lines, start_idx,
        close_index(lines, start_idx,
            {k \in 0..(Len(lines) - 1) : StartsWith(Strip(At(lines, k)), {"{panel}"})}))

ListMarkers == {"*", "-", "#"}

\* Length of the run of list markers a line begins with
marker_run(line) ==
    IF \A k \in 1..Len(line) : line[k] \in ListMarkers THEN Len(line)
    ELSE Min({k \in 1..Len(line) : line[k] \notin ListMarkers}) - 1

\* (.*) stops in front of "\n"
UpToNL(s) == IF Find(s, {NL}, 1) = 0 THEN s ELSE SubSeq(s, 1, Find(s, {NL}, 1) - 1)

\* re.match(r"^(\*|\-|\#)+\s+(.*)", line): group(1) is the last marker of the run
list_item_match(line, run) ==
    IF run >= 1 /\ run < Len(line) /\ line[run + 1] \in Whitespace
    THEN Matched(1, Len(line), <<line[run]>>, UpToNL(LStrip(From(line, run + 1))))
    ELSE NoMatch

list_match(line) == list_item_match(line, marker_run(line))

\* item_node of parse_list
ListItem_w(m) ==
    [type |-> "listItem", content |-> <<Paragraph(parse_inline(m.g2))>>]

WItems(items, list_type, i) == [items |-> items, list_type |-> list_type, i |-> i]

RECURSIVE w_list_items(_, _, _)

w_list_item(lines, i, m, rest) ==
    WItems(<<ListItem_w(m)>> \o rest.items, rest.list_type, rest.i)

w_list_items(lines, i, list_type) ==
    IF i >= Len(lines) THEN WItems(<<>>, list_type, i)
    ELSE IF ~list_match(At(lines, i)).found THEN WItems(<<>>, list_type, i)
    ELSE w_list_item(lines, i, list_match(At(lines, i)),
                     w_list_items(lines, i + 1,
                         IF list_match(At(lines, i)).g1 = <<"#">>
                         THEN "orderedList" ELSE "bulletList"))

w_list_node(start_idx, l) ==
    IF l.list_type = "None"
    THEN WBlock(EmptyAttrs, l.i, <<LogLine(start_idx + 1, <<"List parsing error">>)>>)
    ELSE WBlock([type |-> l.list_type, content |-> l.items], l.i, <<>>)

\* parse_list: list_type is assigned anew at every item, so the node takes the
\* type of the last one
parse_list(lines, start_idx) == w_list_node(start_idx, w_list_items(lines, start_idx, "None"))

\* [cell for cell in re.split(r"\|", line) if cell != ""], then those whose
\* strip() is not empty, each a tableCell
RECURSIVE w_table_cells(_)
w_table_cells(cells) ==
    IF cells = <<>> THEN <<>>
    ELSE IF Strip(cells[1]) = <<>> THEN w_table_cells(Tail(cells))
    ELSE <<[type |-> "tableCell",
            content |-> <<Paragraph(parse_inline(Strip(cells[1])))>>]>>
            \o w_table_cells(Tail(cells))

\* line.startswith("||")
StartsWithPipes(line) == Len(line) >= 2 /\ line[1] = "|" /\ line[2] = "|"

w_table_row(line) ==
    [type |-> IF StartsWithPipes(line) THEN "tableHeader" ELSE "tableRow",
     content |-> w_table_cells(Split(line, "|"))]

WRows(rows, i) == [rows |-> rows, i |-> i]

w_rows_cons(row, rest) == WRows(<<row>> \o rest.rows, rest.i)

\* The while loop of parse_table from line i on
RECURSIVE w_table_rows(_, _)
w_table_rows(lines, i) ==
    IF i >= Len(lines) THEN WRows(<<>>, i)
    ELSE IF ~StartsWith(RStripNL(At(lines, i)), {"|"}) THEN WRows(<<>>, i)
    ELSE w_rows_cons(w_table_row(RStripNL(At(lines, i))), w_table_rows(lines, i + 1))

w_table_node(start_idx, t) ==
    WBlock([type |-> "table", content |-> t.rows], t.i,
           IF t.rows = <<>>
           THEN <<LogLine(start_idx + 1, <<"Table parsing found no rows.">>)>>
           ELSE <<>>)

\* parse_table
parse_table(lines, start_idx) == w_table_node(start_idx, w_table_rows(lines, start_idx))

\* re.match(r"^h([1-6])\.\s+(.*)", line)
w_heading_match(line) ==
    IF Len(line) >= 2 /\ HeadingLevel(line[1]) > 0 /\ line[2] \in Whitespace
    THEN Matched(1, Len(line), HeadingLevel(line[1]), UpToNL(LStrip(Tail(line))))
    ELSE NoMatch

FourDashes == <<"-", "-", "-", "-">>

\* line.startswith("bq. ")
StartsWithBq(line) == Len(line) >= 2 /\ line[1] = "bq." /\ line[2] = SP

\* The test of parse_file that `line` passes first
w_kind(line) ==
    IF StartsWith(line, CodeStart) THEN "code"
    ELSE IF Strip(line) = <<"{noformat}">> THEN "noformat"
    ELSE IF StartsWith(line, PanelStart) THEN "panel"
    ELSE IF w_heading_match(line).found THEN "heading"
    ELSE IF Strip(line) = FourDashes THEN "rule"
    ELSE IF list_match(line).found THEN "list"
    ELSE IF StartsWith(line, {"|"}) THEN "table"
    ELSE IF StartsWithBq(line) THEN "bq"
    ELSE IF Strip(line) = <<>> THEN "blank"
    ELSE "paragraph"

w_heading_node(m) ==
    [type |-> "heading", attrs |-> [level |-> m.g1], content |-> parse_inline(m.g2)]

w_quote_node(quote_text) ==
    [type |-> "blockquote", content |-> <<Paragraph(parse_inline(quote_text))>>]

\* The node appended for a line of that kind, and the index to go on from
w_block(lines, i, line, kind) ==
    CASE kind = "code"     -> parse_code_block(lines, i)
      [] kind = "noformat" -> parse_noformat_block(lines, i)
      [] kind = "panel"    -> parse_panel_block(lines, i)
      [] kind = "heading"  -> WBlock(w_heading_node(w_heading_match(line)), i + 1, <<>>)
      [] kind = "rule"     -> WBlock([type |-> "rule"], i + 1, <<>>)
      [] kind = "list"     -> parse_list(lines, i)
      [] kind = "table"    -> parse_table(lines, i)
      [] kind = "bq"       -> WBlock(w_quote_node(From(line, 3)), i + 1, <<>>)

\* re.match(r"^(h[1-6]\.|----|\* |\# |bq\. |\{|\|)", lines[i])
paragraph_break(line) ==
    \/ StartsWith(line, BraceStart \cup {"|"})
    \/ (line # <<>> /\ HeadingLevel(line[1]) > 0)
    \/ (Len(line) >= 4 /\ SubSeq(line, 1, 4) = FourDashes)
    \/ (Len(line) >= 2 /\ line[1] \in {"*", "#", "bq."} /\ line[2] = SP)

\* The index at which the inner while loop of the paragraph branch stops
w_paragraph_stop(lines, i) ==
    first_stop(lines,
        {k \in (i + 1)..(Len(lines) - 1) :
            Strip(At(lines, k)) = <<>> \/ paragraph_break(At(lines, k))})

\* para_lines: lines i up to stop, each without its "\n"
para_lines(lines, i, stop) == [k \in 1..(stop - i) |-> RStripNL(At(lines, i + k - 1))]

\* para_node and the index after the paragraph
w_paragraph(lines, i, stop) ==
    WBlock(Paragraph(parse_inline(Strip(Join(para_lines(lines, i, stop), <<SP>>)))),
           stop, <<>>)

\* ----------------------------------------------------------------------
\* Inputs
\* ----------------------------------------------------------------------

\* Longest document built from the lines below, in lines
MaxLines == 3

\* Conversions one converter object is asked for in the reuse specification
MaxCalls == 3

Lines ==
    { <<>>,
      <<SP>>,
      <<"a">>,
      <<SP, "*", "a", "*", SP>>,
      <<"h1.", SP, "a">>,
      <<"-", "-", "-", "-">>,
      <<"|", "|", "a", "|", "|", "b", "|", "|">>,
      <<"|", "a", "|", "b", "|">>,
      <<"*", SP, "a">>,
      <<"#", SP, "b">>,
      <<"{code}">>,
      <<"{noformat}">>,
      <<"{quote}">>,
      <<"{panel}">> }

RECURSIVE LineSeqs(_)
LineSeqs(n) ==
    IF n = 0 THEN {<<>>}
    ELSE LineSeqs(n - 1) \cup
         {Append(ls, l) : ls \in {x \in LineSeqs(n - 1) : Len(x) = n - 1}, l \in Lines}

\* Every text of one to MaxLines of these lines
Documents == {Join(ls, <<NL>>) : ls \in LineSeqs(MaxLines) \ {<<>>}}

\* Texts with a color span {color:V}x{color}, alone and after other text
ColorDocuments ==
    {<<t, "x", "{color}">> : t \in ColorTokens}
        \cup {<<"a", SP, t, "x", "{color}">> : t \in ColorTokens}
        \cup {<<"*", SP, t, "x", "{color}">> : t \in ColorTokens}
        \cup {<<"{color:red}", "*", "b", "o", "l", "d", "*", "{color}">>}

\* Texts with a {code} block whose body holds whitespace, markup or a language
CodeDocuments ==
    { <<"{code}", "*", "s", "t", "a", "r", "s", "*", "{code}">>,
      <<"{code}", SP, "a", SP, "{code}">>,
      <<"{code}", NL, SP, SP, "a", NL, "{code}">>,
      <<"{code:java}", NL, "a", NL, "{code}">>,
      <<"{code}", "a", NL, "b", NL, "{code}">>,
      <<"{code}", NL, "a", NL, "{code}", NL, "b">>,
      <<"{code}", "a">>,
      <<"a", NL, "{code}", NL, "b">>,
      <<SP, "{code}", NL, "a", NL, "{code}">> }

\* Lists and tables
ListDocuments ==
    { <<"*", SP, "a", NL, "#", SP, "b", NL, "*", SP, "c">>,
      <<"*", SP, "a", NL, "*", SP, "b", NL, "#", SP, "c", NL, "#", SP, "a">>,
      <<SP, "*", SP, "a">>,
      <<"*", SP, "a", NL, NL, "*", SP, "b">>,
      <<"*", "*", SP, "a", NL, "-", SP, "b">> }

TableDocuments ==
    { <<"|", "|", "a", "|", "|", "b", "|", "|", NL, "|", "a", "|", "b", "|">>,
      <<"|", "a", "|", SP, "|", "b", "|">>,
      <<"|", "a", "|">>,
      <<"|", "a", "b", "c", "|">>,
      <<"|", "|", "a", "|", "b", "|", "|">>,
      <<"|", "a", "|", "b">> }

\* Line endings other than "\n", and a text that ends in one
NewlineDocuments ==
    { <<"a", CR, NL, "b">>, <<"a", CR, "b">>, <<"a", NL>>, <<NL>>, <<CR, NL, "a">> }

\* Inline markup: mention, links, emphasis, monospace, hard break, a quote line
InlineDocuments ==
    { <<"[", "~", "a", "]">>,
      <<"[", "a", "|", "b", "]">>,
      <<"[", "a", "]">>,
      <<"a", SP, "*", "a", "*", SP, "_", "b", "_", SP, "-", "c", "-">>,
      <<"{{", "a", "}}", SP, "*", "*">>,
      <<"a", "\\\\", "b">>,
      <<"bq.", SP, "a">>,
      <<"h1.", "a">>,
      <<"{panel:title=T}", NL, "a", NL, "*", "b", "*", NL, "{panel}">>,
      <<"{panel:title=T}", "a", "{panel}">>,
      <<"{quote}", "a", NL, "b", "{quote}">>,
      <<"{noformat}", SP, "a", SP, "{noformat}">> }

\* A line of text followed, with no blank line between, by a line of another kind
ParagraphDocuments ==
    { <<"a", NL, "-", SP, "b">>,
      <<"a", NL, "*", "*", SP, "b">>,
      <<"a", NL, SP, "-", "-", "-", "-">>,
      <<"a", NL, SP, "{noformat}", NL, "b", NL, "{noformat}">>,
      <<"a", NL, "h1.", "b">>,
      <<"a", NL, "bq.", SP, "b">> }

TextInputs ==
    Documents \cup ColorDocuments \cup CodeDocuments \cup ListDocuments
        \cup TableDocuments \cup NewlineDocuments \cup InlineDocuments
        \cup ParagraphDocuments

\* ----------------------------------------------------------------------
\* State
\* ----------------------------------------------------------------------

VARIABLES
    prog,         \* which program runs: "converter" or "wiki2adf"
    pc,           \* "idle", "parsing", "done", "raised"
    wiki_text,    \* the text given to convert_text / the content of the input file
    lines,        \* local `lines` of _parse_document / parse_file
    i,            \* local `i`, the cursor
    content,      \* local `content` / adf["content"]
    errors,       \* self.context.errors / self.errors
    line_number,  \* self.context.line_number
    adf_doc,      \* the document returned / written
    calls,        \* conversions started on this object
    seen,         \* <<text, document>> of every conversion finished so far
    other         \* the frame of a second convert_text call running meanwhile

vars == <<prog, pc, wiki_text, lines, i, content, errors, line_number, adf_doc,
          calls, seen, other>>

NoDoc == [version |-> 0, type |-> "none", content |-> <<>>]

\* No second call: its frame before convert_text is entered. same_object tells
\* whether the second call is made on the object of the first (one
\* self.context) or on an object of its own, whose context the frame carries.
NoCall(text, same) ==
    [pc |-> "idle", wiki_text |-> text, lines |-> <<>>, i |-> 0, content |-> <<>>,
     adf_doc |-> NoDoc, same_object |-> same, errors |-> <<>>, line_number |-> 1]

\* ----------------------------------------------------------------------
\* JiraWikiToADFConverter.convert_text and the loop of _parse_document
\* ----------------------------------------------------------------------

\* Faulty variant of convert_text: `content` lives on from the call before
convert_text_keeps_content ==
    /\ prog = "converter"
    /\ pc = "idle"
    /\ pc' = "parsing"
    /\ errors' = <<>>
    /\ line_number' = 1
    /\ lines' = Split(NormalizeNewlines(wiki_text), NL)
    /\ i' = 0
    /\ calls' = calls + 1
    /\ UNCHANGED <<other, prog, wiki_text, content, adf_doc, seen>>

\* convert_text up to the first test of the while loop
convert_text ==
    /\ prog = "converter"
    /\ pc = "idle"
    /\ pc' = "parsing"
    /\ errors' = <<>>
    /\ line_number' = 1
    /\ lines' = Split(NormalizeNewlines(wiki_text), NL)
    /\ content' = <<>>
    /\ i' = 0
    /\ calls' = calls + 1
    /\ UNCHANGED <<other, prog, wiki_text, adf_doc, seen>>

\* Faulty variant of the loop test: one iteration too many
loop_condition_inclusive == i <= Len(lines)

\* while i < len(lines)
loop_condition == i < Len(lines)

\* lines[i] raises IndexError when i is not an index of lines
IndexError == i >= Len(lines)

Raise ==
    /\ pc' = "raised"
    /\ UNCHANGED <<other, prog, wiki_text, lines, i, content, errors, line_number,
                   adf_doc, calls, seen>>

\* Faulty variant of the blank-line branch: the blank line is given a paragraph
parse_document_blank_appends ==
    /\ prog = "converter"
    /\ pc = "parsing"
    /\ loop_condition /\ ~IndexError
    /\ Strip(At(lines, i)) = <<>>
    /\ content' = Append(content, _create_empty_paragraph)
    /\ line_number' = i + 1
    /\ i' = i + 1
    /\ UNCHANGED <<other, prog, pc, wiki_text, lines, errors, adf_doc, calls, seen>>

\* if not line.strip(): i += 1; continue
parse_document_blank ==
    /\ prog = "converter"
    /\ pc = "parsing"
    /\ loop_condition
    /\ IF IndexError THEN Raise
       ELSE /\ Strip(At(lines, i)) = <<>>
            /\ line_number' = i + 1
            /\ i' = i + 1
            /\ UNCHANGED <<other, prog, pc, wiki_text, lines, content, errors,
                           adf_doc, calls, seen>>

\* `if block_result:` holds for every tuple, whatever its first member
IsTuple(r) == r.has \/ r.consumed # 0

\* content.append(element); i += lines_consumed
append_element(r) ==
    /\ content' = Append(content, r.node)
    /\ errors' = errors \o r.errors
    /\ i' = i + r.consumed

\* if paragraph: content.append(paragraph); i += lines_consumed
append_paragraph(r) ==
    /\ content' = IF r.has THEN Append(content, r.node) ELSE content
    /\ errors' = errors \o r.errors
    /\ i' = i + r.consumed

\* block_result = self._parse_block_element(lines, i), when it is a tuple
parse_document_block ==
    /\ prog = "converter"
    /\ pc = "parsing"
    /\ loop_condition /\ ~IndexError
    /\ Strip(At(lines, i)) # <<>>
    /\ IsTuple(_parse_block_element(lines, i, i + 1))
    /\ append_element(_parse_block_element(lines, i, i + 1))
    /\ line_number' = i + 1
    /\ UNCHANGED <<other, prog, pc, wiki_text, lines, adf_doc, calls, seen>>

\* block_result is None: self._parse_paragraph(lines, i)
parse_document_paragraph ==
    /\ prog = "converter"
    /\ pc = "parsing"
    /\ loop_condition /\ ~IndexError
    /\ Strip(At(lines, i)) # <<>>
    /\ ~IsTuple(_parse_block_element(lines, i, i + 1))
    /\ append_paragraph(_parse_paragraph(lines, i, i + 1))
    /\ line_number' = i + 1
    /\ UNCHANGED <<other, prog, pc, wiki_text, lines, adf_doc, calls, seen>>

Doc(c) == [version |-> 1, type |-> "doc", content |-> c]

\* return content if content else [self._create_empty_paragraph()]
document_content == IF content # <<>> THEN content ELSE <<_create_empty_paragraph>>

\* The loop ends; convert_text wraps the content and returns adf_doc
parse_document_return ==
    /\ prog = "converter"
    /\ pc = "parsing"
    /\ ~loop_condition
    /\ pc' = "done"
    /\ adf_doc' = Doc(document_content)
    /\ seen' = seen \cup {<<wiki_text, Doc(document_content)>>}
    /\ UNCHANGED <<other, prog, wiki_text, lines, i, content, errors, line_number, calls>>

\* ----------------------------------------------------------------------
\* JiraWikiToADF.parse_file
\* ----------------------------------------------------------------------

\* open(input_path, 'r') translates "\r\n" and "\r" to "\n"; readlines();
\* adf = {"version": 1, "type": "doc", "content": []}; i = 0.
\* self.errors is set in __init__ only.
parse_file ==
    /\ prog = "wiki2adf"
    /\ pc = "idle"
    /\ pc' = "parsing"
    /\ lines' = ReadLines(NormalizeNewlines(wiki_text))
    /\ content' = <<>>
    /\ i' = 0
    /\ calls' = calls + 1
    /\ UNCHANGED <<other, prog, wiki_text, errors, line_number, adf_doc, seen>>

\* line = lines[i].rstrip('\n')
line_at_cursor == RStripNL(At(lines, i))

\* adf["content"].append(node); i = skip_to
append_node(r) ==
    /\ content' = Append(content, r.node)
    /\ errors' = errors \o r.errors
    /\ i' = r.skip_to

\* One of the tests in front of the blank-line test holds
parse_file_block ==
    /\ prog = "wiki2adf"
    /\ pc = "parsing"
    /\ i < Len(lines)
    /\ w_kind(line_at_cursor) \notin {"blank", "paragraph"}
    /\ append_node(w_block(lines, i, line_at_cursor, w_kind(line_at_cursor)))
    /\ UNCHANGED <<other, prog, pc, wiki_text, lines, line_number, adf_doc, calls, seen>>

\* if line.strip() == "": i += 1; continue
parse_file_blank ==
    /\ prog = "wiki2adf"
    /\ pc = "parsing"
    /\ i < Len(lines)
    /\ w_kind(line_at_cursor) = "blank"
    /\ i' = i + 1
    /\ UNCHANGED <<other, prog, pc, wiki_text, lines, content, errors, line_number,
                   adf_doc, calls, seen>>

\* Otherwise treat as a paragraph
parse_file_paragraph ==
    /\ prog = "wiki2adf"
    /\ pc = "parsing"
    /\ i < Len(lines)
    /\ w_kind(line_at_cursor) = "paragraph"
    /\ append_node(w_paragraph(lines, i, w_paragraph_stop(lines, i)))
    /\ UNCHANGED <<other, prog, pc, wiki_text, lines, line_number, adf_doc, calls, seen>>

\* The loop ends; json.dump(adf, f)
parse_file_dump ==
    /\ prog = "wiki2adf"
    /\ pc = "parsing"
    /\ ~(i < Len(lines))
    /\ pc' = "done"
    /\ adf_doc' = Doc(content)
    /\ seen' = seen \cup {<<wiki_text, Doc(content)>>}
    /\ UNCHANGED <<other, prog, wiki_text, lines, i, content, errors, line_number, calls>>

Init ==
    /\ prog \in {"converter", "wiki2adf"}
    /\ pc = "idle"
    /\ wiki_text \in TextInputs
    /\ lines = <<>>
    /\ i = 0
    /\ content = <<>>
    /\ errors = <<>>
    /\ line_number = 1
    /\ adf_doc = NoDoc
    /\ calls = 0
    /\ seen = {}
    /\ other = NoCall(<<>>, FALSE)

Next ==
    \/ convert_text
    \/ parse_document_blank
    \/ parse_document_block
    \/ parse_document_paragraph
    \/ parse_document_return
    \/ parse_file
    \/ parse_file_block
    \/ parse_file_blank
    \/ parse_file_paragraph
    \/ parse_file_dump

Spec == Init /\ [][Next]_vars

\* ----------------------------------------------------------------------
\* One object asked for several conversions, or a new object made in between
\* ----------------------------------------------------------------------

ReuseInputs ==
    { <<>>,
      <<"a">>,
      <<"{color:notacolor}", "x", "{color}">>,
      <<"*", SP, "a", NL, "#", SP, "b">>,
      <<"{code}", NL, "a">>,
      <<"h1.", SP, "a", NL, NL, "|", "a", "|", "b", "|">> }

\* The caller calls convert_text / parse_file again on the same object
convert_again ==
    /\ pc = "done"
    /\ calls < MaxCalls
    /\ pc' = "idle"
    /\ wiki_text' \in ReuseInputs
    /\ UNCHANGED <<other, prog, lines, i, content, errors, line_number, adf_doc,
                   calls, seen>>

\* The caller constructs a new object (__init__) and converts with that one
new_converter ==
    /\ pc = "done"
    /\ calls < MaxCalls
    /\ pc' = "idle"
    /\ wiki_text' \in ReuseInputs
    /\ errors' = <<>>
    /\ line_number' = 1
    /\ UNCHANGED <<other, prog, lines, i, content, adf_doc, calls, seen>>

InitReuse ==
    /\ prog \in {"converter", "wiki2adf"}
    /\ pc = "idle"
    /\ wiki_text \in ReuseInputs
    /\ lines = <<>>
    /\ i = 0
    /\ content = <<>>
    /\ errors = <<>>
    /\ line_number = 1
    /\ adf_doc = NoDoc
    /\ calls = 0
    /\ seen = {}
    /\ other = NoCall(<<>>, FALSE)

NextReuse ==
    \/ Next
    \/ convert_again
    \/ new_converter

SpecReuse == InitReuse /\ [][NextReuse]_vars

\* ----------------------------------------------------------------------
\* Two convert_text calls in progress at once: the second on the object of the
\* first, or on an object of its own. Each call has its own locals (lines, i,
\* content); the context is a field of the object. One loop iteration of a
\* call is one step.
\* ----------------------------------------------------------------------

ConcurrentInputs ==
    { <<"a">>,
      <<"{color:notacolor}", "x", "{color}", NL, NL, "a">>,
      <<"a", NL, "{color:#ff}", "y", "{color}">>,
      <<"*", SP, "a", NL, "h1.", SP, "{color:#ffff}", "z", "{color}">> }

\* convert_text entered by the second call: self.context = ParsingContext()
\* replaces the context of the object the call is made on
convert_text_other ==
    /\ prog = "converter"
    /\ other.pc = "idle"
    /\ other' = [other EXCEPT !.pc = "parsing",
                              !.lines = Split(NormalizeNewlines(other.wiki_text), NL),
                              !.content = <<>>,
                              !.i = 0,
                              !.errors = <<>>,
                              !.line_number = 1]
    /\ errors' = IF other.same_object THEN <<>> ELSE errors
    /\ line_number' = IF other.same_object THEN 1 ELSE line_number
    /\ UNCHANGED <<prog, pc, wiki_text, lines, i, content, adf_doc, calls, seen>>

\* One iteration of the second call's loop: self.context.line_number = i + 1,
\* the node is appended to the call's own content, and _add_error appends to
\* self.context.errors of the object
other_iteration(node, has, consumed, errs) ==
    /\ other' = [other EXCEPT
                    !.content = IF has THEN Append(@, node) ELSE @,
                    !.i = @ + consumed,
                    !.errors = IF other.same_object THEN @ ELSE @ \o errs,
                    !.line_number = IF other.same_object THEN @ ELSE other.i + 1]
    /\ errors' = IF other.same_object THEN errors \o errs ELSE errors
    /\ line_number' = IF other.same_object THEN other.i + 1 ELSE line_number
    /\ UNCHANGED <<prog, pc, wiki_text, lines, i, content, adf_doc, calls, seen>>

\* if not line.strip(): i += 1; continue
parse_document_blank_other ==
    /\ prog = "converter"
    /\ other.pc = "parsing"
    /\ other.i < Len(other.lines)
    /\ Strip(At(other.lines, other.i)) = <<>>
    /\ other_iteration(NoDoc, FALSE, 1, <<>>)

other_element(r) == other_iteration(r.node, TRUE, r.consumed, r.errors)

other_paragraph(r) == other_iteration(r.node, r.has, r.consumed, r.errors)

\* block_result = self._parse_block_element(lines, i), when it is a tuple
parse_document_block_other ==
    /\ prog = "converter"
    /\ other.pc = "parsing"
    /\ other.i < Len(other.lines)
    /\ Strip(At(other.lines, other.i)) # <<>>
    /\ IsTuple(_parse_block_element(other.lines, other.i, other.i + 1))
    /\ other_element(_parse_block_element(other.lines, other.i, other.i + 1))

\* block_result is None: self._parse_paragraph(lines, i)
parse_document_paragraph_other ==
    /\ prog = "converter"
    /\ other.pc = "parsing"
    /\ other.i < Len(other.lines)
    /\ Strip(At(other.lines, other.i)) # <<>>
    /\ ~IsTuple(_parse_block_element(other.lines, other.i, other.i + 1))
    /\ other_paragraph(_parse_paragraph(other.lines, other.i, other.i + 1))

\* return content if content else [self._create_empty_paragraph()]
content_or_placeholder(c) == IF c # <<>> THEN c ELSE <<_create_empty_paragraph>>

\* The second call's loop ends; convert_text returns its adf_doc
parse_document_return_other ==
    /\ prog = "converter"
    /\ other.pc = "parsing"
    /\ ~(other.i < Len(other.lines))
    /\ other' = [other EXCEPT !.pc = "done",
                              !.adf_doc = Doc(content_or_placeholder(other.content))]
    /\ seen' = seen \cup {<<other.wiki_text, Doc(content_or_placeholder(other.content))>>}
    /\ UNCHANGED <<prog, pc, wiki_text, lines, i, content, errors, line_number,
                   adf_doc, calls>>

InitConcurrent ==
    /\ prog = "converter"
    /\ pc = "idle"
    /\ wiki_text \in ConcurrentInputs
    /\ lines = <<>>
    /\ i = 0
    /\ content = <<>>
    /\ errors = <<>>
    /\ line_number = 1
    /\ adf_doc = NoDoc
    /\ calls = 0
    /\ seen = {}
    /\ other \in {NoCall(t, same) : t \in ConcurrentInputs, same \in BOOLEAN}

NextConcurrent ==
    \/ convert_text
    \/ parse_document_blank
    \/ parse_document_block
    \/ parse_document_paragraph
    \/ parse_document_return
    \/ convert_text_other
    \/ parse_document_blank_other
    \/ parse_document_block_other
    \/ parse_document_paragraph_other
    \/ parse_document_return_other

SpecConcurrent == InitConcurrent /\ [][NextConcurrent]_vars

\* ----------------------------------------------------------------------
\* The table parsers called on their own, on the first line of any lines:
\* _parse_table(lines, 0) and parse_table(lines, 0)
\* ----------------------------------------------------------------------

TableParserInputs == {Join(ls, <<NL>>) : ls \in LineSeqs(2) \ {<<>>}}

\* self._parse_table(lines, 0) on a converter whose context is new
_parse_table_called ==
    /\ prog = "converter"
    /\ pc = "idle"
    /\ pc' = "returned"
    /\ lines' = Split(NormalizeNewlines(wiki_text), NL)
    /\ content' = IF _parse_table(lines', 0, 1).has
                  THEN <<_parse_table(lines', 0, 1).node>> ELSE <<>>
    /\ errors' = errors \o _parse_table(lines', 0, 1).errors
    /\ i' = _parse_table(lines', 0, 1).consumed
    /\ UNCHANGED <<other, prog, wiki_text, line_number, adf_doc, calls, seen>>

\* self.parse_table(lines, 0)
parse_table_called ==
    /\ prog = "wiki2adf"
    /\ pc = "idle"
    /\ pc' = "returned"
    /\ lines' = ReadLines(NormalizeNewlines(wiki_text))
    /\ content' = <<parse_table(lines', 0).node>>
    /\ errors' = errors \o parse_table(lines', 0).errors
    /\ i' = parse_table(lines', 0).skip_to
    /\ UNCHANGED <<other, prog, wiki_text, line_number, adf_doc, calls, seen>>

InitTable ==
    /\ prog \in {"converter", "wiki2adf"}
    /\ pc = "idle"
    /\ wiki_text \in TableParserInputs
    /\ lines = <<>>
    /\ i = 0
    /\ content = <<>>
    /\ errors = <<>>
    /\ line_number = 1
    /\ adf_doc = NoDoc
    /\ calls = 0
    /\ seen = {}
    /\ other = NoCall(<<>>, FALSE)

NextTable ==
    \/ _parse_table_called
    \/ parse_table_called

SpecTable == InitTable /\ [][NextTable]_vars

\* ----------------------------------------------------------------------
\* Properties
\* ----------------------------------------------------------------------

Done == pc = "done"

\* The leaves of a sequence of nodes, in document order
RECURSIVE Leaves(_)
Leaves(nodes) ==
    IF nodes = <<>> THEN <<>>
    ELSE (IF "content" \in DOMAIN nodes[1] THEN Leaves(nodes[1].content)
          ELSE <<nodes[1]>>) \o Leaves(Tail(nodes))

\* How many diagnostics of one kind the converter holds
ErrorCount(kind) ==
    Cardinality({k \in 1..Len(errors) : errors[k].error_type = kind})

\* C1: every conversion returns a document whose content is not empty, and when
\* no block was produced the content is exactly one empty paragraph.
C1_ContentNeverEmpty ==
    Done => /\ adf_doc.content # <<>>
            /\ (content = <<>> => adf_doc.content = <<_create_empty_paragraph>>)

\* C1, reached: an input of blank lines only has been converted by parse_file
C1_BlankInputConverted ==
    /\ Done /\ prog = "wiki2adf"
    /\ wiki_text = <<SP, NL, NL>>
    /\ content = <<>>

\* C2: every step of the builder loop of _parse_document either moves the
\* cursor strictly forward, to at most the number of lines, or leaves the loop
\* with the cursor at the end of the input; so the loop terminates.
C2_CursorAdvances ==
    [][(prog = "converter" /\ pc = "parsing") =>
          \/ (pc' = "parsing" /\ i' > i /\ i' <= Len(lines))
          \/ (pc' = "done" /\ i = Len(lines))]_vars

\* C2, reached: a line that only looks like a list item after strip() went from
\* the list parser to the paragraph parser, which consumed it
C2_ListFellBackToParagraph ==
    /\ prog = "converter" /\ pc = "parsing"
    /\ wiki_text = <<SP, "*", SP, "a">>
    /\ i = 1
    /\ content = <<Paragraph(<<TextNode(<<SP, "*", SP, "a">>)>>)>>

\* C3: the converter never raises: whatever the input, however malformed, no
\* step of a conversion ends in an exception, and what convert_text returns is a
\* document with content.
C3_NeverRaises ==
    prog = "converter" =>
        /\ pc # "raised"
        /\ (Done => adf_doc.type = "doc" /\ adf_doc.content # <<>>)

\* C3, reached: a text with two fences that are never closed has been converted
C3_MalformedConverted ==
    /\ Done /\ prog = "converter"
    /\ wiki_text = <<"{code}", NL, "a", NL, "{quote}">>

\* A text that is one {code} block: opener, body, closer
IsCodeFence(t) ==
    /\ Len(t) >= 2
    /\ t[1] = "{code}" /\ t[Len(t)] = "{code}"
    /\ \A k \in 2..(Len(t) - 1) : t[k] # "{code}"

FenceBody(t) == SubSeq(t, 2, Len(t) - 1)

\* A body without the line break that follows the opener and the one in front
\* of the closer, where it has them
WithoutFraming(b) ==
    SubSeq(b, IF b # <<>> /\ b[1] = NL THEN 2 ELSE 1,
              IF Len(b) >= 2 /\ b[Len(b)] = NL THEN Len(b) - 1 ELSE Len(b))

\* C4: a {code} block becomes a codeBlock holding one text leaf without marks
\* whose text is the body between the markers, character for character (read
\* with or without the line breaks that frame the body).
C4_CodeBodyVerbatim ==
    (Done /\ IsCodeFence(wiki_text)) =>
        /\ Len(adf_doc.content) = 1
        /\ adf_doc.content[1].type = "codeBlock"
        /\ adf_doc.content[1].content \in
              { <<TextNode(FenceBody(wiki_text))>>,
                <<TextNode(WithoutFraming(FenceBody(wiki_text)))>> }

\* A text that opens a {code} block and never closes it
UnclosedCode(t) ==
    /\ t # <<>>
    /\ t[1] \in CodeStart
    /\ \A k \in 2..Len(t) : t[k] # "{code}"

\* Diagnostics that report an unclosed block
UnclosedTagCount ==
    IF prog = "converter" THEN ErrorCount("unclosed_tag")
    ELSE Cardinality({k \in 1..Len(errors) : errors[k].message[1] = "Unclosed {"})

\* C5: a {code} opener that is never closed yields a codeBlock for the region
\* and exactly one unclosed_tag diagnostic.
C5_UnclosedCodeBlock ==
    (Done /\ UnclosedCode(wiki_text)) =>
        /\ adf_doc.content # <<>>
        /\ adf_doc.content[1].type = "codeBlock"
        /\ UnclosedTagCount = 1

\* Color markers whose value is a color, and markers whose value is not
C6Valid == {"{color:red}", "{color:RED}", "{color:#fff}"}
C6Invalid == {"{color:notacolor}", "{color:#ffff}"}

\* The span {color:V}x{color} stands at p
ColorSpanAt(t, p) ==
    /\ p + 2 <= Len(t)
    /\ t[p] \in C6Valid \cup C6Invalid
    /\ t[p + 1] = "x" /\ t[p + 2] = "{color}"

HasLeaf(node) ==
    \E k \in 1..Len(Leaves(adf_doc.content)) : Leaves(adf_doc.content)[k] = node

ColoredBold == <<"{color:red}", "*", "b", "o", "l", "d", "*", "{color}">>

MarksOf(node) ==
    IF "marks" \in DOMAIN node THEN {node.marks[k] : k \in 1..Len(node.marks)} ELSE {}

\* C7: {color:red}*bold*{color} becomes one text node "bold" that carries a
\* strong mark and a textColor mark of value red.
C7_ColorInteriorRescanned ==
    (Done /\ prog = "converter" /\ wiki_text = ColoredBold) =>
        /\ Len(Leaves(adf_doc.content)) = 1
        /\ Leaves(adf_doc.content)[1].text = <<"b", "o", "l", "d">>
        /\ MarksOf(Leaves(adf_doc.content)[1])
              = {Mark("strong"), ColorMark(<<"r", "e", "d">>)}

\* A list node of one item
ListOf(list_type, t) ==
    [type |-> list_type,
     content |-> <<[type |-> "listItem",
                    content |-> <<Paragraph(<<TextNode(<<t>>)>>)>>]>>]

\* C8: the lines "* a", "# b", "* c" become three list nodes, bulletList[a],
\* orderedList[b], bulletList[c]; no list node mixes the two families.
C8_ListsAreHomogeneous ==
    (Done /\ wiki_text = <<"*", SP, "a", NL, "#", SP, "b", NL, "*", SP, "c">>) =>
        adf_doc.content = <<ListOf("bulletList", "a"), ListOf("orderedList", "b"),
                            ListOf("bulletList", "c")>>

\* One line framed by double pipes / by single pipes
IsHeaderLine(t) ==
    /\ Len(t) >= 5 /\ NL \notin {t[k] : k \in 1..Len(t)}
    /\ t[1] = "|" /\ t[2] = "|" /\ t[3] # "|"
    /\ t[Len(t)] = "|" /\ t[Len(t) - 1] = "|" /\ t[Len(t) - 2] # "|"

IsRowLine(t) ==
    /\ Len(t) >= 3 /\ NL \notin {t[k] : k \in 1..Len(t)}
    /\ t[1] = "|" /\ t[2] # "|"
    /\ t[Len(t)] = "|" /\ t[Len(t) - 1] # "|"

\* The fields such a line delimits
FieldsOf(t) ==
    IF IsHeaderLine(t) THEN SplitPipes(SubSeq(t, 3, Len(t) - 2))
    ELSE Split(SubSeq(t, 2, Len(t) - 1), "|")

\* C9: a line framed by double pipes becomes a table row of header cells only,
\* a line framed by single pipes a table row of data cells only, one cell for
\* each field.
C9_TableRowCells ==
    (Done /\ (IsHeaderLine(wiki_text) \/ IsRowLine(wiki_text))) =>
        /\ Len(adf_doc.content) = 1
        /\ adf_doc.content[1].type = "table"
        /\ Len(adf_doc.content[1].content) = 1
        /\ adf_doc.content[1].content[1].type = "tableRow"
        /\ Len(adf_doc.content[1].content[1].content) = Len(FieldsOf(wiki_text))
        /\ \A k \in 1..Len(adf_doc.content[1].content[1].content) :
              adf_doc.content[1].content[1].content[k].type
                  = IF IsHeaderLine(wiki_text) THEN "tableHeader" ELSE "tableCell"

\* C10: conversion is deterministic: whatever was converted before, on the same
\* object or on another, the same text always gives the same document.
C10_Deterministic ==
    \A p \in seen, q \in seen : p[1] = q[1] => p[2] = q[2]

\* C10, reached: three conversions are done, of two different texts only
C10_ConvertedAgain ==
    /\ Done /\ prog = "converter"
    /\ calls = 3
    /\ Cardinality(seen) = 2
    /\ wiki_text = <<"{color:notacolor}", "x", "{color}">>

\* Texts whose conversion records no diagnostic in either program
CleanTexts == {<<>>, <<"a">>}

\* C11: the diagnostics a caller reads after a call are those of that call
\* alone: every call starts from an empty collector, and a text that records
\* nothing leaves the collector empty whatever the object converted before.
C11_DiagnosticsOfLastCall ==
    /\ (pc = "parsing" /\ i = 0) => errors = <<>>
    /\ (Done /\ wiki_text \in CleanTexts) => errors = <<>>

\* C11, reached: an object that converted an unclosed {code} block has then
\* converted the plain text a
C11_EarlierDiagnosticsKept ==
    /\ Done /\ prog = "wiki2adf"
    /\ calls = 2
    /\ wiki_text = <<"a">>
    /\ Len(errors) = 1

\* What one convert_text call gives when nothing else runs: the content and
\* the diagnostics of _parse_document over the lines ls from line k on
RECURSIVE convert_alone(_, _, _, _)
alone_paragraph(ls, k, c, errs, r) ==
    convert_alone(ls, k + r.consumed, IF r.has THEN Append(c, r.node) ELSE c,
                  errs \o r.errors)

alone_block(ls, k, c, errs, r) ==
    IF IsTuple(r)
    THEN convert_alone(ls, k + r.consumed, Append(c, r.node), errs \o r.errors)
    ELSE alone_paragraph(ls, k, c, errs, _parse_paragraph(ls, k, k + 1))

convert_alone(ls, k, c, errs) ==
    IF k >= Len(ls) THEN [content |-> content_or_placeholder(c), errors |-> errs]
    ELSE IF Strip(At(ls, k)) = <<>> THEN convert_alone(ls, k + 1, c, errs)
    ELSE alone_block(ls, k, c, errs, _parse_block_element(ls, k, k + 1))

Alone(text) == convert_alone(Split(NormalizeNewlines(text), NL), 0, <<>>, <<>>)

ReturnsAsAlone(doc, errs, alone) ==
    /\ doc = Doc(alone.content)
    /\ errs = alone.errors

\* C12: two conversions whose steps interleave do not disturb each other: at
\* the moment either call returns, its document and the diagnostics in the
\* collector it recorded into are those the same text gives when converted
\* alone, nothing of the other call added and nothing of its own lost.
C12_ConversionsIndependent ==
    [][/\ (pc = "parsing" /\ pc' = "done") =>
              ReturnsAsAlone(adf_doc', errors', Alone(wiki_text))
       /\ (other.pc = "parsing" /\ other'.pc = "done") =>
              ReturnsAsAlone(other'.adf_doc,
                             IF other.same_object THEN errors' ELSE other'.errors,
                             Alone(other.wiki_text))]_vars

\* C12, reached: a call that converted the text a alone on its lines has
\* returned while the collector of its object holds a diagnostic of the other
\* call, which is still running
C12_ForeignDiagnostic ==
    /\ Done /\ wiki_text = <<"a">>
    /\ other.pc = "parsing" /\ other.same_object
    /\ Len(errors) = 1

\* The tests of JiraWikiToADFConverter._parse_block_element that the stripped
\* line l, or the text from the cursor on, passes
ConverterQualifies(l, joined) ==
    [fenced  |-> \E name \in {"code_block", "noformat", "quote", "panel"} :
                     AtStart(pattern_search(name, joined)),
     heading |-> heading_match(l).found,
     rule    |-> horizontal_rule_match(l),
     table   |-> table_header_match(l).found \/ table_row_match(l).found,
     list    |-> bullet_list_match(l).found \/ numbered_list_match(l).found]

\* The tests of JiraWikiToADF.parse_file that the line passes
FileQualifies(line) ==
    [fenced  |-> \/ StartsWith(line, CodeStart)
                 \/ Strip(line) = <<"{noformat}">>
                 \/ StartsWith(line, PanelStart),
     heading |-> w_heading_match(line).found,
     rule    |-> Strip(line) = FourDashes,
     table   |-> StartsWith(line, {"|"}),
     list    |-> list_match(line).found]

\* The first kind in the order fenced > heading > rule > table > list > paragraph
FirstApplicable(q) ==
    IF q.fenced THEN "fenced"
    ELSE IF q.heading THEN "heading"
    ELSE IF q.rule THEN "rule"
    ELSE IF q.table THEN "table"
    ELSE IF q.list THEN "list"
    ELSE "paragraph"

\* The block kind of a node type
KindOfType(t) ==
    CASE t \in {"codeBlock", "blockquote", "panel"} -> "fenced"
      [] t \in {"bulletList", "orderedList"} -> "list"
      [] OTHER -> t

QualifiesAtCursor ==
    IF prog = "converter"
    THEN ConverterQualifies(Strip(At(lines, i)), Join(LinesFrom(lines, i), <<NL>>))
    ELSE FileQualifies(line_at_cursor)

\* What the parser selected for a line of kind k may give: a block of kind k,
\* or, where the converter's list parser finds no item in the unstripped line,
\* the paragraph it falls back to
MayGive(k) ==
    IF prog = "converter" /\ k = "list" THEN {k, "paragraph"} ELSE {k}

\* C13: whenever the builder appends a block for the line at the cursor, the
\* block comes from the parser of the first kind, in the order fenced block >
\* heading > rule > table > list > paragraph, whose test the line passes; a
\* line that passes none of the tests gives a paragraph.
C13_FirstApplicableParser ==
    [][(pc = "parsing" /\ pc' = "parsing" /\ Len(content') = Len(content) + 1) =>
          KindOfType(content'[Len(content')].type)
              \in MayGive(FirstApplicable(QualifiesAtCursor))]_vars

\* C13, reached: the line bq. a, which passes none of the five tests, has been
\* converted to a blockquote
C13_BqLineIsBlockquote ==
    /\ Done /\ prog = "wiki2adf"
    /\ wiki_text = <<"bq.", SP, "a">>
    /\ Len(content) = 1
    /\ content[1].type = "blockquote"

\* The openers of the four fenced kinds and the node type of each
FenceOpeners == {"{code}", "{noformat}", "{quote}", "{panel}"}

FenceType(opener) ==
    CASE opener = "{quote}" -> "blockquote"
      [] opener = "{panel}" -> "panel"
      [] OTHER -> "codeBlock"

\* A text whose first line is the opener alone and that never closes it
UnclosedFence(t, opener) ==
    /\ Len(t) >= 2
    /\ t[1] = opener /\ t[2] = NL
    /\ \A k \in 2..Len(t) : t[k] # opener

\* C14: for each of {code}, {noformat}, {quote} and {panel}, an opener that is
\* never closed yields one block node of that kind that runs to the end of the
\* input, not a paragraph, and an unclosed_tag diagnostic is recorded.
C14_UnclosedFenceIsBlock ==
    \A opener \in FenceOpeners :
        (Done /\ UnclosedFence(wiki_text, opener)) =>
            /\ Len(adf_doc.content) = 1
            /\ adf_doc.content[1].type = FenceType(opener)
            /\ UnclosedTagCount >= 1

\* C14, reached: the converter has turned an unclosed {noformat} region into a
\* paragraph and recorded nothing
C14_UnclosedNoformatIsParagraph ==
    /\ Done /\ prog = "converter"
    /\ wiki_text = <<"{noformat}", NL, "a">>
    /\ adf_doc.content[1].type = "paragraph"
    /\ errors = <<>>

\* The table parser found no row from the first line on
NoRows ==
    IF prog = "converter" THEN table_rows_from(lines, 0, 1).rows = <<>>
    ELSE w_table_rows(lines, 0).rows = <<>>

\* Diagnostics that report a table that could not be parsed
MalformedTableCount ==
    IF prog = "converter" THEN ErrorCount("malformed_table")
    ELSE Cardinality({k \in 1..Len(errors) :
                         errors[k].message = <<"Table parsing found no rows.">>})

ItemsAcrossBlank(t) ==
    /\ Len(t) = 8
    /\ t[1] \in {"*", "#"} /\ t[6] = t[1]
    /\ t[2] = SP /\ t[7] = SP
    /\ t[3] \in {"a", "b"} /\ t[8] \in {"a", "b"}
    /\ t[4] = NL /\ t[5] = NL

\* One item followed by the line a, which is not an item
ItemThenText(t) ==
    /\ Len(t) = 5
    /\ t[1] \in {"*", "#"} /\ t[2] = SP /\ t[3] \in {"a", "b"}
    /\ t[4] = NL /\ t[5] = "a"

IsListOf(node, n) ==
    /\ node.type \in {"bulletList", "orderedList"}
    /\ Len(node.content) = n

\* C16: a blank line between two items of one marker family does not end the
\* list, both items are in one list node; a line that is not blank and not an
\* item ends the list and becomes the next block.
C16_BlankLineKeepsList ==
    /\ (Done /\ ItemsAcrossBlank(wiki_text)) =>
           /\ Len(adf_doc.content) = 1
           /\ IsListOf(adf_doc.content[1], 2)
    /\ (Done /\ ItemThenText(wiki_text)) =>
           /\ Len(adf_doc.content) = 2
           /\ IsListOf(adf_doc.content[1], 1)
           /\ adf_doc.content[2].type = "paragraph"

\* C16, reached: two bullet items with a blank line between them have been
\* converted to two lists
C16_BlankLineSplitList ==
    /\ Done /\ prog = "wiki2adf"
    /\ wiki_text = <<"*", SP, "a", NL, NL, "*", SP, "a">>
    /\ Len(content) = 2
    /\ IsListOf(content[1], 1) /\ IsListOf(content[2], 1)

\* The block classifier would give line k of `lines` to a parser other than
\* the paragraph parser
StartsOtherBlock(k) ==
    IF prog = "converter"
    THEN FirstApplicable(ConverterQualifies(Strip(At(lines, k)),
                                            Join(LinesFrom(lines, k), <<NL>>)))
             # "paragraph"
    ELSE w_kind(RStripNL(At(lines, k))) \notin {"paragraph", "blank"}

IsBlankLine(k) == Strip(At(lines, k)) = <<>>

ParagraphAppended ==
    /\ pc = "parsing" /\ pc' = "parsing"
    /\ Len(content') = Len(content) + 1
    /\ content'[Len(content')].type = "paragraph"

\* C17: a paragraph runs from its first line to the first blank line or the
\* first later line that the block classifier gives to another parser, no
\* further and no less far: no such line is absorbed into the paragraph, and
\* the cursor is left on it, so that it is parsed as its own block.
C17_ParagraphStopsAtBlocks ==
    [][ParagraphAppended =>
          /\ \A k \in (i + 1)..(i' - 1) : ~IsBlankLine(k) /\ ~StartsOtherBlock(k)
          /\ (i' = Len(lines) \/ IsBlankLine(i') \/ StartsOtherBlock(i'))]_vars

\* C17, reached: the list item - b that follows the line a has been absorbed
\* into the paragraph of a
C17_ListItemAbsorbed ==
    /\ Done /\ prog = "wiki2adf"
    /\ wiki_text = <<"a", NL, "-", SP, "b">>
    /\ Len(content) = 1
    /\ content[1].type = "paragraph"

\* C18: a blank line never starts a block: when the line at the cursor is empty
\* or holds only whitespace, the step of the builder consumes that one line
\* and appends no node and no diagnostic.
C18_BlankLinesStartNoBlock ==
    [][(pc = "parsing" /\ i < Len(lines) /\ IsBlankLine(i)) =>
          /\ pc' = "parsing"
          /\ i' = i + 1
          /\ content' = content
          /\ errors' = errors]_vars

\* C18, reached: the blank line between two lines of text has been consumed,
\* with the one paragraph of the first line in the content
C18_BlankLineSkipped ==
    /\ pc = "parsing"
    /\ wiki_text = <<"a", NL, NL, "a">>
    /\ i = 2
    /\ Len(content) = 1

\* Some paragraph among the nodes, or inside one of them, has no child
RECURSIVE HasEmptyParagraph(_)
HasEmptyParagraph(nodes) ==
    \E k \in 1..Len(nodes) :
        /\ "content" \in DOMAIN nodes[k]
        /\ \/ (nodes[k].type = "paragraph" /\ nodes[k].content = <<>>)
           \/ HasEmptyParagraph(nodes[k].content)

\* C19: for empty or whitespace-only text the inline parser returns no node,
\* and the block parsers then put a single empty text node in its place: no
\* paragraph of the document the converter returns, at any depth, has an
\* empty content list.
C19_NoEmptyParagraphContent ==
    /\ \A t \in {<<>>, <<SP>>, <<SP, NL, SP>>} :
           _parse_inline_content(t, 1) = Inline(<<>>, <<>>)
    /\ (Done /\ prog = "converter") => ~HasEmptyParagraph(adf_doc.content)

\* C19, reached: a {quote} block with nothing between its markers has been
\* converted to a blockquote whose paragraph has no child
C19_EmptyQuoteParagraph ==
    /\ Done /\ prog = "converter"
    /\ wiki_text = <<"{quote}", NL, "{quote}">>
    /\ adf_doc.content = <<[type |-> "blockquote", content |-> <<Paragraph(<<>>)>>]>>

\* The recognizers in the order the claim gives them
ClaimedInlineOrder ==
    << "color", "link_with_text", "link_simple", "image", "code_block", "noformat",
       "quote", "monospace", "bold", "italic", "underline", "strikethrough",
       "superscript", "subscript", "citation", "line_break" >>

\* Of the matches ms, the first in the order among those that start earliest
\* (0 when nothing matches)
FirstAtEarliest(ms) ==
    IF \A k \in 1..Len(ms) : ~ms[k].found THEN 0
    ELSE Min({k \in 1..Len(ms) :
                 /\ ms[k].found
                 /\ \A j \in 1..Len(ms) : ms[j].found => ms[k].start <= ms[j].start})

NameAt(order, k) == IF k = 0 THEN "none" ELSE order[k]

\* On the remaining text s the inline parser applies the recognizer the claim
\* names
ScanAgrees(s) ==
    NameAt(inline_pattern_names, earliest_pattern(inline_patterns(s)))
        = NameAt(ClaimedInlineOrder,
                 FirstAtEarliest([k \in 1..Len(ClaimedInlineOrder) |->
                                     pattern_search(ClaimedInlineOrder[k], s)]))

LabelledLink == <<"[", "a", "|", "b", "]">>

\* C20: on every remaining text the inline parser can be at, the recognizer it
\* applies is the one whose match starts earliest, and of several that start
\* at the same offset the first in the order color, link with label, bare
\* link, image, fenced artifacts, inline code, bold, italic, underline,
\* strikethrough, superscript, subscript, citation, hard break; so [a|b], which
\* both link recognizers match at offset 0, is a link to b labelled a.
C20_EarliestMatchFirstInOrder ==
    (Done /\ prog = "converter") =>
        /\ \A p \in 1..Len(wiki_text) : ScanAgrees(From(wiki_text, p))
        /\ wiki_text = LabelledLink =>
               adf_doc.content = <<Paragraph(<<MarkedText(<<"a">>, LinkMark(<<"b">>))>>)>>

\* C20, reached: [a|b] has been converted, with the href b
C20_TieResolved ==
    /\ Done /\ prog = "converter"
    /\ wiki_text = LabelledLink
    /\ Len(adf_doc.content) = 1
    /\ adf_doc.content[1].content[1].marks[1].attrs.href = <<"b">>

\* Color markers the claim has accepted, and markers it has rejected
C21Accepted == {"{color:fff}", "{color:#fff}", "{color:RED}", "{color:red}"}
C21Rejected == {"{color:#ffff}"}

\* C21: a hex value of 3 or 6 digits is a color with and without a leading #,
\* and a named color is one in any case: {color:fff}x{color}, {color:#fff}x{color}
\* and {color:RED}x{color} each become the text x with a textColor mark of that
\* value and no diagnostic, while a 4-digit hex value gives the text x
\* without mark and an invalid_color diagnostic.
C21_ColorValidation ==
    \A t \in C21Accepted \cup C21Rejected :
        (Done /\ prog = "converter" /\ wiki_text = <<t, "x", "{color}">>) =>
            IF t \in C21Accepted
            THEN /\ Leaves(adf_doc.content) = <<MarkedText(<<"x">>, ColorMark(ColorArg(t)))>>
                 /\ errors = <<>>
            ELSE /\ Leaves(adf_doc.content) = <<TextNode(<<"x">>)>>
                 /\ ErrorCount("invalid_color") = 1

\* C21, reached: the span with the hex value fff, written without #, has been
\* converted to unmarked text and has left an invalid_color diagnostic
C21_BareHexRejected ==
    /\ Done /\ prog = "converter"
    /\ wiki_text = <<"{color:fff}", "x", "{color}">>
    /\ Leaves(adf_doc.content) = <<TextNode(<<"x">>)>>
    /\ ErrorCount("invalid_color") = 1

MentionToken == <<"[", "~", "a", "]">>

\* A Mention node: '@identifier' as display text, no external id
MentionNode(identifier) ==
    [type |-> "mention", attrs |-> [id |-> <<>>, text |-> <<"@">> \o identifier]]

\* C22: the mention token [~a] becomes a Mention node with the display text @a
\* and an empty id, not a text node with a link mark and not literal text.
C22_MentionNode ==
    (Done /\ wiki_text = MentionToken) =>
        Leaves(adf_doc.content) = <<MentionNode(<<"a">>)>>

\* C22, reached: the converter has made of [~a] the text ~a with a link to ~a
C22_MentionIsLink ==
    /\ Done /\ prog = "converter"
    /\ wiki_text = MentionToken
    /\ Leaves(adf_doc.content) = <<MarkedText(<<"~", "a">>, LinkMark(<<"~", "a">>))>>

\* A text that is one {panel} block: the opener on a line of its own, body
\* lines, the closer on a line of its own
IsPanelText(t) ==
    /\ Len(t) >= 5
    /\ t[1] \in PanelStart /\ t[2] = NL
    /\ t[Len(t) - 1] = NL /\ t[Len(t)] = "{panel}"
    /\ \A k \in 2..(Len(t) - 1) : t[k] \notin PanelStart

PanelBodyLines(t) == Split(SubSeq(t, 3, Len(t) - 2), NL)

\* The paragraphs of a panel with this title and these body lines: the title
\* first when there is one, then one paragraph for each line, in order
PanelParagraphsMatch(paragraphs, title, body) ==
    /\ Len(paragraphs) = Len(body) + (IF title # <<>> THEN 1 ELSE 0)
    /\ \A k \in 1..Len(paragraphs) : paragraphs[k].type = "paragraph"
    /\ title # <<>> => paragraphs[1].content = <<TextNode(title)>>
    /\ \A k \in 1..Len(body) :
          body[k] = <<"a">> =>
              paragraphs[k + (IF title # <<>> THEN 1 ELSE 0)].content = <<TextNode(<<"a">>)>>

\* C23: a {panel} block becomes one panel node with one paragraph for each
\* body line, in order, after one extra leading paragraph for the title when
\* title= is given: n paragraphs for n body lines without a title, n + 1 with.
C23_PanelParagraphs ==
    (Done /\ IsPanelText(wiki_text)) =>
        /\ Len(adf_doc.content) = 1
        /\ adf_doc.content[1].type = "panel"
        /\ PanelParagraphsMatch(adf_doc.content[1].content, PanelArg(wiki_text[1]),
                                PanelBodyLines(wiki_text))

TitledPanel == <<"{panel:title=T}", NL, "a", NL, "*", "b", "*", NL, "{panel}">>

\* C23, reached: the converter has made of a titled panel with two body lines
\* a panel with a single paragraph
C23_PanelOneParagraph ==
    /\ Done /\ prog = "converter"
    /\ wiki_text = TitledPanel
    /\ Len(adf_doc.content) = 1
    /\ adf_doc.content[1].type = "panel"
    /\ Len(adf_doc.content[1].content) = 1

\* A text {noformat}B{noformat} whose body B holds no fence marker
IsNoformatText(t) ==
    /\ Len(t) >= 2
    /\ t[1] = "{noformat}" /\ t[Len(t)] = "{noformat}"
    /\ \A k \in 2..(Len(t) - 1) : t[k] \notin BraceStart

\* The same body between {code} markers without a language tag
AsCode(t) == [k \in 1..Len(t) |-> IF t[k] = "{noformat}" THEN "{code}" ELSE t[k]]

\* The blocks the running program gives for {code}B{code}: the opener is on
\* the first line and the block runs to the end of the text
CodeBlocksOf(t) ==
    IF prog = "converter" THEN Alone(t).content
    ELSE <<parse_code_block(ReadLines(NormalizeNewlines(t)), 0).node>>

\* C24: {noformat}B{noformat} gives the code block that {code}B{code} gives:
\* the same node shape, the same attributes and the same single literal text
\* leaf with the same text.
C24_NoformatAsCode ==
    (Done /\ IsNoformatText(wiki_text)) =>
        adf_doc.content = CodeBlocksOf(AsCode(wiki_text))

NoformatA == <<"{noformat}", NL, "a", NL, "{noformat}">>

\* C24, reached: {noformat} around one line has given a code block without an
\* attrs field, where {code} around the same line gives one with an attrs
\* field
C24_NoformatWithoutAttrs ==
    /\ Done
    /\ wiki_text = NoformatA
    /\ Len(adf_doc.content) = 1
    /\ adf_doc.content[1].type = "codeBlock"
    /\ "attrs" \notin DOMAIN adf_doc.content[1]
    /\ Len(CodeBlocksOf(AsCode(wiki_text))) = 1
    /\ "attrs" \in DOMAIN CodeBlocksOf(AsCode(wiki_text))[1]

\* The loop passes over the blank line at the cursor and emits nothing
SkipsBlankLine ==
    /\ i < Len(lines)
    /\ Strip(At(lines, i)) = <<>>
    /\ i' = i + 1
    /\ content' = content

\* The loop emits one block, after those it has, for the lines from the
\* non-blank line at the cursor up to the new cursor, which is still within
\* the lines
EmitsOneBlock ==
    /\ i < Len(lines)
    /\ Strip(At(lines, i)) # <<>>
    /\ i' > i /\ i' <= Len(lines)
    /\ Len(content') = Len(content) + 1
    /\ SubSeq(content', 1, Len(content)) = content

\* C25: throughout a conversion the cursor stays within 0..number of lines,
\* and each step of the loop either skips the blank line at the cursor or emits
\* exactly one block for the region from the cursor to the new cursor: regions
\* are disjoint, contiguous apart from skipped blank lines and in document
\* order, no non-blank line is skipped or parsed twice, and the blocks are in
\* the order of their first lines; the loop ends with the cursor at the end.
C25_CursorAndRegions ==
    [][(pc = "parsing") =>
          /\ i \in 0..Len(lines)
          /\ \/ (pc' = "parsing" /\ (SkipsBlankLine \/ EmitsOneBlock))
             \/ (pc' = "done" /\ i = Len(lines) /\ content' = content)]_vars

\* C25, reached: the conversion of a {code} block that is never closed has
\* ended with the cursor one past the number of lines
C25_CursorPastEnd ==
    /\ Done /\ prog = "wiki2adf"
    /\ wiki_text = <<"{code}", NL, "a">>
    /\ Len(lines) = 2
    /\ i = 3

=============================================================================
